---- MODULE Spec2Model ----
(***************************************************************************)
(* Model of the Maryland county economic-data scripts.                     *)
(*                                                                         *)
(*   CountySpec : the county loop of fred_api.py (metadata fetch, data     *)
(*                fetch with rate-limit backoff, CSV write)                *)
(*   SafeSpec   : safe_get_series_info / safe_get_series of fred_api.py    *)
(*   SnakeSpec  : to_snake_case                                            *)
(*   PathSpec   : file naming of fred_api.py against the metric discovery  *)
(*                and the lookup of generate_plotly_dash.py                *)
(*   BlsSpec    : bls_api.py, series ids, file names, batched download     *)
(*   MergeSpec  : bls_api.py, merge of the metric files per county         *)
(*   PeriodSpec : period_to_month_end of                                   *)
(*                maryland_fred_github_automation.py                       *)
(*   MainSpec   : build_county_df and main of the same script              *)
(*   SocSpec    : socrata_api.py                                           *)
(*   IpumsSpec  : the wait and download logic of ipums_api.py              *)
(***************************************************************************)
EXTENDS Integers, Sequences, FiniteSets, TLC

VARIABLES
    \* ---- fred_api.py county loop ----
    sheet,          \* the series-id cells of the sheet, in iteration order (Blank = empty cell)
    idx,            \* position of the loop in sheet
    pc,             \* position of the script inside the loop body
    meta,           \* python variable meta: Unset, or the series whose info it holds
    data,           \* python variable data: Unset, None, or the series whose data it holds
    retries,        \* python variable retries
    wait_seconds,   \* python variable wait_seconds
    attempts,       \* calls of fred.get_series made for the current series
    waits,          \* the waits slept for the current series, in order
    info_failed,    \* per cell: fred.get_series_info raised for it
    reported,       \* per cell: whose metadata was printed (NotYet before the print)
    fetch_result,   \* per cell: outcome of the data fetch
    files,          \* per cell: content of the cell's CSV (NoFile, or the series whose data it holds)
    \* ---- safe_get_series_info / safe_get_series ----
    safe_fn,        \* which of the two functions is running
    safe_retries,   \* the parameter retries
    attempt,        \* the loop variable attempt
    safe_pc,        \* position inside the function
    safe_calls,     \* outcomes of the FRED client calls made so far
    safe_waits,     \* the waits slept so far
    safe_result,    \* the number of the call whose result was returned, 0 before
    \* ---- to_snake_case ----
    s_in,           \* the argument
    s_once,         \* to_snake_case(s_in)
    s_twice,        \* to_snake_case(to_snake_case(s_in))
    snake_pc,
    \* ---- naming: fred_api.py writer, generate_plotly_dash.py reader ----
    folders,            \* county folders made under fred_csv_outputs/county_data
    disk,               \* CSV files under fred_csv_outputs/county_data
    written,            \* (county, column, path) of every write of fred_api
    dash_pc,            \* the dashboard script: "off" or "serving"
    scanned,            \* the files that were on disk when the dashboard started
    found_in,           \* (path, metric) of every metric the discovery loop added
    county_metric_set,  \* the dashboard's discovered metrics
    county_metrics_df,  \* (group, metric) rows
    last_call,          \* arguments and outcome of the last get_group_data_for_county
    lookups,            \* (metric, path, exists) of every csv_path that call built
    \* ---- bls_api.py: series ids, file names, batched download ----
    county_series_id_df,    \* the sheet rows (COUNTY, SERIES ID) as read
    county_series_melted,   \* one row per (county, metric, series id)
    id_to_filename,         \* dict series id -> file name without .csv
    all_series_ids,         \* the unique series ids, in order
    bls_i,                  \* the loop variable i
    bls_pc,                 \* "off", "loop" or "done"
    bls_requests,           \* the seriesid list of every request sent, in order
    bls_log,                \* requests, sleeps and [ERROR] lines, in order
    bls_saved,              \* the series ids of the [SAVED] lines printed, in order
    employment_count_dir,   \* files of the output folder: name and the series whose data it holds
    \* ---- bls_api.py: merge phase ----
    merge_files,        \* the files of employment_count_dir when the merge starts
    merge_pc,           \* "off", "collect", "save" or "done"
    merge_read,         \* names of the files the first loop has visited
    parsed,             \* (filename, county_name, metric_col) of every file that was parsed
    county_dfs,         \* dict county_name -> list of frames
    county_keys,        \* the keys of county_dfs in insertion order
    save_k,             \* number of dict entries the second loop has handled
    merged_output_dir,  \* the files written to the merged folder
    \* ---- maryland_fred_github_automation.py: period_to_month_end ----
    p_series,           \* the argument series: (date, value) observations in index order
    p_freq,             \* the argument freq
    p_df,               \* the returned frame: (Date, Value) rows
    p_pc,               \* "off", "called" or "returned"
    \* ---- maryland_fred_github_automation.py: main, build_county_df ----
    m_pc,               \* "off", "county" (inside build_county_df), "master" or "done"
    m_k,                \* position of main's loop in COUNTIES
    m_j,                \* position of build_county_df's loop in the county's series
    m_frames,           \* the list frames of the running build_county_df
    m_events,           \* sleeps and fetches, in order
    m_outcomes,         \* per county visited, per series: how its fetch ended
    m_returned,         \* per county visited: the frame build_county_df returned
    county_exports,     \* files under data/counties/
    all_dfs,            \* the list all_dfs of main
    master_exports,     \* files under data/master/
    \* ---- socrata_api.py ----
    soc_pc,             \* "start", "export", "exited" or "done"; "off" when not run
    soc_df,             \* the fetched table: its columns and its rows
    soc_groups,         \* the county names of the groupby, in its order
    soc_k,              \* groups the export loop is through with
    soc_files,          \* files of the output folder
    \* ---- ipums_api.py: wait and download ----
    ip_pc,              \* "off", "poll", "sleep", "download", "exited" or "downloaded"
    ip_events,          \* status polls, sleeps and download requests, in order
    ip_files            \* files the script has written

countyVars == <<sheet, idx, pc, meta, data, retries, wait_seconds, attempts, waits,
                info_failed, reported, fetch_result, files>>
safeVars   == <<safe_fn, safe_retries, attempt, safe_pc, safe_calls, safe_waits, safe_result>>
snakeVars  == <<s_in, s_once, s_twice, snake_pc>>
pathVars   == <<folders, disk, written, dash_pc, scanned, found_in, county_metric_set,
                county_metrics_df, last_call, lookups>>
blsVars    == <<county_series_id_df, county_series_melted, id_to_filename, all_series_ids,
                bls_i, bls_pc, bls_requests, bls_log, bls_saved, employment_count_dir>>
mergeVars  == <<merge_files, merge_pc, merge_read, parsed, county_dfs, county_keys, save_k,
                merged_output_dir>>
periodVars == <<p_series, p_freq, p_df, p_pc>>
mainVars   == <<m_pc, m_k, m_j, m_frames, m_events, m_outcomes, m_returned, county_exports,
                all_dfs, master_exports>>
socVars    == <<soc_pc, soc_df, soc_groups, soc_k, soc_files>>
ipumsVars  == <<ip_pc, ip_events, ip_files>>
vars       == <<countyVars, safeVars, snakeVars, pathVars, blsVars, mergeVars, periodVars, mainVars, socVars, ipumsVars>>

(***************************************************************************)
(* Bounds                                                                  *)
(***************************************************************************)
MaxSeries == 2          \* cells of the sheet that the county loop visits
MaxRetriesArg == 4      \* largest value passed as retries to the safe_get functions
MaxLen == 4             \* longest argument of to_snake_case
MaxFiles == 2           \* CSV files that fred_api gets to write
MaxRows == 7            \* rows of the BLS sheet
MaxMergeFiles == 2      \* files in the folder that the merge phase reads
MaxDates == 2           \* distinct dates in the files that are merged
MaxObs == 3             \* observations of a series passed to period_to_month_end
MaxYears == 3           \* years that the observations span
MaxCounties == 2        \* entries of COUNTIES that main visits
MaxCols == 2            \* series per entry of COUNTIES
MaxNoticeDates == 2     \* observation dates in the table socrata_api fetches
MaxPolls == 3           \* status polls that find the extract neither completed nor failed

(***************************************************************************)
(* fred_api.py: county loop                                                *)
(***************************************************************************)
\* the values of the script's names and files: a tag, and for "series" the
\* number of the sheet cell whose series the value belongs to
Unset     == [tag |-> "unset", cell |-> 0]      \* a python name that was never assigned
None      == [tag |-> "None", cell |-> 0]
Blank     == [tag |-> "blank", cell |-> 0]      \* an empty cell of the sheet
NoFile    == [tag |-> "no file", cell |-> 0]
NotYet    == [tag |-> "not printed", cell |-> 0]
SeriesOf(i) == [tag |-> "series", cell |-> i]

max_retries == 8
initial_wait_seconds == 10


\* what fred.get_series_info can do
InfoOutcomes  == {"ok", "exception"}

CountyIdle ==
    /\ sheet = <<>>
    /\ idx = 1
    /\ pc = "done"
    /\ meta = Unset
    /\ data = Unset
    /\ retries = 0
    /\ wait_seconds = initial_wait_seconds
    /\ attempts = 0
    /\ waits = <<>>
    /\ info_failed = <<>>
    /\ reported = <<>>
    /\ fetch_result = <<>>
    /\ files = <<>>

\* the sheet as read from the Excel file: each cell is blank or holds its own id
\* (distinct cells carry distinct series ids)
Sheets == UNION {{[i \in 1..n |-> IF i \in blanks THEN Blank ELSE SeriesOf(i)] :
                    blanks \in SUBSET (1..n)} : n \in 1..MaxSeries}

CountyInit ==
    /\ sheet \in Sheets
    /\ idx = 1
    /\ pc = "row"
    /\ meta = Unset
    /\ data = Unset
    /\ retries = 0
    /\ wait_seconds = initial_wait_seconds
    /\ attempts = 0
    /\ waits = <<>>
    /\ info_failed = [i \in 1..Len(sheet) |-> FALSE]
    /\ reported = [i \in 1..Len(sheet) |-> NotYet]
    /\ fetch_result = [i \in 1..Len(sheet) |-> "pending"]
    /\ files = [i \in 1..Len(sheet) |-> NoFile]

\* for ... iterrows() / for col in columns[1:]: the loops are exhausted
LoopEnd ==
    /\ pc = "row"
    /\ idx > Len(sheet)
    /\ pc' = "done"
    /\ UNCHANGED <<sheet, idx, meta, data, retries, wait_seconds, attempts, waits,
                   info_failed, reported, fetch_result, files>>
    /\ UNCHANGED <<safeVars, snakeVars, pathVars, blsVars, mergeVars, periodVars, mainVars, socVars, ipumsVars>>

\* if pd.isna(series_id) or series_id == "": continue
SkipBlank ==
    /\ pc = "row"
    /\ idx <= Len(sheet)
    /\ sheet[idx] = Blank
    /\ idx' = idx + 1
    /\ UNCHANGED <<sheet, pc, meta, data, retries, wait_seconds, attempts, waits,
                   info_failed, reported, fetch_result, files>>
    /\ UNCHANGED <<safeVars, snakeVars, pathVars, blsVars, mergeVars, periodVars, mainVars, socVars, ipumsVars>>

\* the metadata printed from the python variable meta: meta.get(...) on an
\* unassigned name raises NameError, which the inner except turns into None
MetadataOf(m) == IF m = Unset THEN None ELSE m

\* fetch metadata, print it, and set up the retry loop
FetchMetadata ==
    /\ pc = "row"
    /\ idx <= Len(sheet)
    /\ sheet[idx] # Blank
    /\ \E o \in InfoOutcomes :
          /\ meta' = IF o = "ok" THEN sheet[idx] ELSE meta
          /\ info_failed' = [info_failed EXCEPT ![idx] = (o # "ok")]
    /\ reported' = [reported EXCEPT ![idx] = MetadataOf(meta')]
    /\ retries' = 0
    /\ wait_seconds' = initial_wait_seconds
    /\ attempts' = 0
    /\ waits' = <<>>
    /\ pc' = "fetch"
    /\ UNCHANGED <<sheet, idx, data, fetch_result, files>>
    /\ UNCHANGED <<safeVars, snakeVars, pathVars, blsVars, mergeVars, periodVars, mainVars, socVars, ipumsVars>>

\* wait_seconds *= 2
BackoffLinear(w) == w + initial_wait_seconds
Backoff(w) == w * 2

\* while retries < max_retries
LoopCondition(r) == r < max_retries

\* data = fred.get_series(series_id): success
FetchOk ==
    /\ pc = "fetch"
    /\ attempts' = attempts + 1
    /\ data' = sheet[idx]
    /\ fetch_result' = [fetch_result EXCEPT ![idx] = "ok"]
    /\ pc' = "check"
    /\ UNCHANGED <<sheet, idx, meta, retries, wait_seconds, waits,
                   info_failed, reported, files>>
    /\ UNCHANGED <<safeVars, snakeVars, pathVars, blsVars, mergeVars, periodVars, mainVars, socVars, ipumsVars>>

\* except HTTPError with e.code == 429: retries += 1, announce the wait
FetchRateLimited ==
    /\ pc = "fetch"
    /\ attempts' = attempts + 1
    /\ retries' = retries + 1
    /\ fetch_result' = [fetch_result EXCEPT ![idx] = "rate_limited"]
    /\ pc' = "sleep"
    /\ UNCHANGED <<sheet, idx, meta, data, wait_seconds, waits,
                   info_failed, reported, files>>
    /\ UNCHANGED <<safeVars, snakeVars, pathVars, blsVars, mergeVars, periodVars, mainVars, socVars, ipumsVars>>

\* except HTTPError with another code, or except Exception: data = None; break
FetchError ==
    /\ pc = "fetch"
    /\ \E o \in {"http_other", "exception"} :
          fetch_result' = [fetch_result EXCEPT ![idx] = o]
    /\ attempts' = attempts + 1
    /\ data' = None
    /\ pc' = "check"
    /\ UNCHANGED <<sheet, idx, meta, retries, wait_seconds, waits,
                   info_failed, reported, files>>
    /\ UNCHANGED <<safeVars, snakeVars, pathVars, blsVars, mergeVars, periodVars, mainVars, socVars, ipumsVars>>

\* time.sleep(wait_seconds); wait_seconds *= 2; then the while condition
SleepDone ==
    /\ pc = "sleep"
    /\ waits' = Append(waits, wait_seconds)
    /\ wait_seconds' = Backoff(wait_seconds)
    /\ pc' = IF LoopCondition(retries) THEN "fetch" ELSE "check"
    /\ UNCHANGED <<sheet, idx, meta, data, retries, attempts,
                   info_failed, reported, fetch_result, files>>
    /\ UNCHANGED <<safeVars, snakeVars, pathVars, blsVars, mergeVars, periodVars, mainVars, socVars, ipumsVars>>

\* if data is None, evaluated on a name that was never assigned: NameError
CheckCrash ==
    /\ pc = "check"
    /\ data = Unset
    /\ pc' = "crashed"
    /\ UNCHANGED <<sheet, idx, meta, data, retries, wait_seconds, attempts, waits,
                   info_failed, reported, fetch_result, files>>
    /\ UNCHANGED <<safeVars, snakeVars, pathVars, blsVars, mergeVars, periodVars, mainVars, socVars, ipumsVars>>

\* if data is None: continue
CheckSkip ==
    /\ pc = "check"
    /\ data = None
    /\ idx' = idx + 1
    /\ pc' = "row"
    /\ UNCHANGED <<sheet, meta, data, retries, wait_seconds, attempts, waits,
                   info_failed, reported, fetch_result, files>>
    /\ UNCHANGED <<safeVars, snakeVars, pathVars, blsVars, mergeVars, periodVars, mainVars, socVars, ipumsVars>>

\* df = data.to_frame(...); df.to_csv(out_path); time.sleep(0.75)
SaveCsv ==
    /\ pc = "check"
    /\ data \notin {Unset, None}
    /\ files' = [files EXCEPT ![idx] = data]
    /\ idx' = idx + 1
    /\ pc' = "row"
    /\ UNCHANGED <<sheet, meta, data, retries, wait_seconds, attempts, waits,
                   info_failed, reported, fetch_result>>
    /\ UNCHANGED <<safeVars, snakeVars, pathVars, blsVars, mergeVars, periodVars, mainVars, socVars, ipumsVars>>

CountyStep ==
    \/ LoopEnd
    \/ SkipBlank
    \/ FetchMetadata
    \/ FetchOk
    \/ FetchRateLimited
    \/ FetchError
    \/ SleepDone
    \/ CheckCrash
    \/ CheckSkip
    \/ SaveCsv

(***************************************************************************)
(* fred_api.py: safe_get_series_info, safe_get_series                      *)
(***************************************************************************)
MAX_RETRIES == 3
SAFE_WAIT_STEP == 5

SafeFunctions == {"safe_get_series_info", "safe_get_series"}

\* what one call of fred.get_series_info / fred.get_series can do: return,
\* raise ValueError with or without 'Too Many Requests', raise something else
ValueErrors == {"too_many_requests", "value_error"}

SafeIdle ==
    /\ safe_fn = "safe_get_series"
    /\ safe_retries = MAX_RETRIES
    /\ attempt = 0
    /\ safe_pc = "idle"
    /\ safe_calls = <<>>
    /\ safe_waits = <<>>
    /\ safe_result = 0

\* a call of either function, retries defaulting to MAX_RETRIES
SafeInit ==
    /\ safe_fn \in SafeFunctions
    /\ safe_retries \in {MAX_RETRIES} \cup 0..MaxRetriesArg
    /\ attempt = 0
    /\ safe_pc = "loop"
    /\ safe_calls = <<>>
    /\ safe_waits = <<>>
    /\ safe_result = 0

\* for attempt in range(retries)
InRangeOff(a, r) == a <= r
InRange(a, r) == a < r

\* if "Too Many Requests" in str(e)
IsRateLimitAny(e) == e \in ValueErrors
IsRateLimit(e) == e = "too_many_requests"

\* wait = 5 * (attempt + 1)
SafeWait(a) == SAFE_WAIT_STEP * (a + 1)

\* return fred.get_series...(series_id)
SafeCallReturns ==
    /\ safe_pc = "loop"
    /\ InRange(attempt, safe_retries)
    /\ safe_calls' = Append(safe_calls, "ok")
    /\ safe_result' = Len(safe_calls) + 1
    /\ safe_pc' = "returned"
    /\ UNCHANGED <<safe_fn, safe_retries, attempt, safe_waits>>
    /\ UNCHANGED <<countyVars, snakeVars, pathVars, blsVars, mergeVars, periodVars, mainVars, socVars, ipumsVars>>

\* except ValueError as e: wait on a rate limit, else raise
SafeCallValueError ==
    /\ safe_pc = "loop"
    /\ InRange(attempt, safe_retries)
    /\ \E e \in ValueErrors :
          /\ safe_calls' = Append(safe_calls, e)
          /\ safe_pc' = IF IsRateLimit(e) THEN "sleep" ELSE "raised_value_error"
    /\ UNCHANGED <<safe_fn, safe_retries, attempt, safe_waits, safe_result>>
    /\ UNCHANGED <<countyVars, snakeVars, pathVars, blsVars, mergeVars, periodVars, mainVars, socVars, ipumsVars>>

\* an exception that is no ValueError leaves the function
SafeCallOtherException ==
    /\ safe_pc = "loop"
    /\ InRange(attempt, safe_retries)
    /\ safe_calls' = Append(safe_calls, "other_exception")
    /\ safe_pc' = "raised_other"
    /\ UNCHANGED <<safe_fn, safe_retries, attempt, safe_waits, safe_result>>
    /\ UNCHANGED <<countyVars, snakeVars, pathVars, blsVars, mergeVars, periodVars, mainVars, socVars, ipumsVars>>

\* time.sleep(wait), then the next attempt
SafeSleepDone ==
    /\ safe_pc = "sleep"
    /\ safe_waits' = Append(safe_waits, SafeWait(attempt))
    /\ attempt' = attempt + 1
    /\ safe_pc' = "loop"
    /\ UNCHANGED <<safe_fn, safe_retries, safe_calls, safe_result>>
    /\ UNCHANGED <<countyVars, snakeVars, pathVars, blsVars, mergeVars, periodVars, mainVars, socVars, ipumsVars>>

\* raise ValueError(f"Failed to fetch series ... after {retries} attempts.")
SafeExhausted ==
    /\ safe_pc = "loop"
    /\ ~InRange(attempt, safe_retries)
    /\ safe_pc' = "raised_failed"
    /\ UNCHANGED <<safe_fn, safe_retries, attempt, safe_calls, safe_waits, safe_result>>
    /\ UNCHANGED <<countyVars, snakeVars, pathVars, blsVars, mergeVars, periodVars, mainVars, socVars, ipumsVars>>

SafeStep ==
    \/ SafeCallReturns
    \/ SafeCallValueError
    \/ SafeCallOtherException
    \/ SafeSleepDone
    \/ SafeExhausted

(***************************************************************************)
(* to_snake_case (fred_api.py, bls_api.py, generate_plotly_dash.py,        *)
(* Economic_using_plotly_dash.py: the same five statements everywhere)     *)
(*                                                                         *)
(* A string is a sequence of characters; an ASCII character is written as  *)
(* itself, another one by its code point.                                  *)
(***************************************************************************)
LowerLetters == {"a", "b", "c", "d", "e", "f", "g", "h", "i", "j", "k", "l", "m",
                 "n", "o", "p", "q", "r", "s", "t", "u", "v", "w", "x", "y", "z"}
Digits == {"0", "1", "2", "3", "4", "5", "6", "7", "8", "9"}

\* str.lower() of one character.  U+0130 (capital I with dot above) lowers to
\* two characters, i and the combining dot U+0307; U+00C9 to U+00E9.
LowerChar(c) ==
    CASE c = "A" -> <<"a">>   [] c = "B" -> <<"b">>   [] c = "C" -> <<"c">>
      [] c = "D" -> <<"d">>   [] c = "E" -> <<"e">>   [] c = "F" -> <<"f">>
      [] c = "G" -> <<"g">>   [] c = "H" -> <<"h">>   [] c = "I" -> <<"i">>
      [] c = "J" -> <<"j">>   [] c = "K" -> <<"k">>   [] c = "L" -> <<"l">>
      [] c = "M" -> <<"m">>   [] c = "N" -> <<"n">>   [] c = "O" -> <<"o">>
      [] c = "P" -> <<"p">>   [] c = "Q" -> <<"q">>   [] c = "R" -> <<"r">>
      [] c = "S" -> <<"s">>   [] c = "T" -> <<"t">>   [] c = "U" -> <<"u">>
      [] c = "V" -> <<"v">>   [] c = "W" -> <<"w">>   [] c = "X" -> <<"x">>
      [] c = "Y" -> <<"y">>   [] c = "Z" -> <<"z">>
      [] c = "U+00C9" -> <<"U+00E9">>
      [] c = "U+0130" -> <<"i", "U+0307">>
      [] OTHER -> <<c>>

RECURSIVE Lower(_)
\* s = s.lower()
Lower(s) == IF s = <<>> THEN <<>> ELSE LowerChar(Head(s)) \o Lower(Tail(s))

\* s = re.sub(r"[ /\\\-]", "_", s)
Separators == {" ", "/", "\\", "-"}
ReplaceSeparators(s) == [i \in 1..Len(s) |-> IF s[i] \in Separators THEN "_" ELSE s[i]]

\* s = re.sub(r"[^a-z0-9_]", "", s)
IsKept(c) == c \in LowerLetters \cup Digits \cup {"_"}
RemoveSpecial(s) == SelectSeq(s, IsKept)

RECURSIVE CollapseUnderscores(_)
\* s = re.sub(r"_+", "_", s)
CollapseUnderscores(s) ==
    IF Len(s) < 2 THEN s
    ELSE IF s[1] = "_" /\ s[2] = "_" THEN CollapseUnderscores(Tail(s))
    ELSE <<s[1]>> \o CollapseUnderscores(Tail(s))

RECURSIVE LStrip(_)
LStrip(s) == IF s # <<>> /\ Head(s) = "_" THEN LStrip(Tail(s)) ELSE s

RECURSIVE RStrip(_)
RStrip(s) == IF s # <<>> /\ s[Len(s)] = "_" THEN RStrip(SubSeq(s, 1, Len(s) - 1)) ELSE s

\* s = s.strip("_")
StripUnderscores(s) == RStrip(LStrip(s))

\* the five statements in another order: strip before the separators are replaced
to_snake_case_strip_first(s) ==
    CollapseUnderscores(RemoveSpecial(ReplaceSeparators(StripUnderscores(Lower(s)))))

to_snake_case(s) ==
    StripUnderscores(CollapseUnderscores(RemoveSpecial(ReplaceSeparators(Lower(s)))))

\* characters the arguments are drawn from: one of each class the function
\* distinguishes (upper, lower, digit, the four separators, underscore, an
\* ASCII special, a character whose lower() is two characters)
Chars == {"A", "a", "1", " ", "/", "\\", "-", "_", "(", "U+0130"}

StringsUpTo(n) == UNION {[1..k -> Chars] : k \in 0..n}

SnakeIdle ==
    /\ s_in = <<>>
    /\ s_once = <<>>
    /\ s_twice = <<>>
    /\ snake_pc = "idle"

SnakeInit ==
    /\ s_in \in StringsUpTo(MaxLen)
    /\ s_once = <<>>
    /\ s_twice = <<>>
    /\ snake_pc = "start"

\* name = to_snake_case(s)
Convert ==
    /\ snake_pc = "start"
    /\ s_once' = to_snake_case(s_in)
    /\ snake_pc' = "once"
    /\ UNCHANGED <<s_in, s_twice>>
    /\ UNCHANGED <<countyVars, safeVars, pathVars, blsVars, mergeVars, periodVars, mainVars, socVars, ipumsVars>>

\* to_snake_case applied to a name that already went through it
ConvertAgain ==
    /\ snake_pc = "once"
    /\ s_twice' = to_snake_case(s_once)
    /\ snake_pc' = "twice"
    /\ UNCHANGED <<s_in, s_once>>
    /\ UNCHANGED <<countyVars, safeVars, pathVars, blsVars, mergeVars, periodVars, mainVars, socVars, ipumsVars>>

SnakeStep ==
    \/ Convert
    \/ ConvertAgain

(***************************************************************************)
(* Naming: fred_api.py writes county_data/<county>/<county>_<metric>.csv,  *)
(* generate_plotly_dash.py discovers the metrics and builds the paths      *)
(***************************************************************************)
\* the COUNTY column and the column labels of the sheet "COUNTY FRED"
county_list == {
    <<"B", "a", "l", "t", "i", "m", "o", "r", "e", " ", "C", "i", "t", "y">>,
    <<"S", "t", ".", " ", "M", "a", "r", "y", "'", "s">>,
    <<"?">>}
Columns == {
    <<"R", "e", "s", "i", "d", "e", "n", "t", " ", "P", "o", "p", "u", "l", "a", "t", "i", "o", "n">>,
    <<"A", "l", "l", "-", "T", "r", "a", "n", "s", "a", "c", "t", "i", "o", "n", "s", " ", "H", "o", "u", "s", "e", " ", "P", "r", "i", "c", "e", " ", "I", "n", "d", "e", "x">>,
    <<"U", "n", "e", "m", "p", "l", "o", "y", "m", "e", "n", "t", " ", "R", "a", "t", "e", " ", "(", "%", ")">>,
    <<"S", "N", "A", "P", " ", "B", "e", "n", "e", "f", "i", "t", "s", " ", "R", "e", "c", "i", "p", "i", "e", "n", "t", "s">>}

CSV_SUFFIX == <<".", "c", "s", "v">>
COUNTY_DATA == <<"c", "o", "u", "n", "t", "y", "_", "d", "a", "t", "a">>

\* a path below fred_csv_outputs/county_data: the directories, then the file name
\* os.path.join(base, d) and Path / d: an empty d names base itself
PathJoin(dirs, d) == IF d = <<>> THEN dirs ELSE Append(dirs, d)

\* file.parent.name
ParentName(p) == IF p.dirs = <<>> THEN COUNTY_DATA ELSE p.dirs[Len(p.dirs)]

\* str.rfind("."), 0 when there is none
LastDot(name) ==
    LET dots == {i \in 1..Len(name) : name[i] = "."}
    IN  IF dots = {} THEN 0 ELSE CHOOSE i \in dots : \A j \in dots : j <= i

\* file.stem: the name without its last suffix
Stem(name) ==
    LET i == LastDot(name)
    IN  IF 1 < i /\ i < Len(name) THEN SubSeq(name, 1, i - 1) ELSE name

\* str.startswith
StartsWith(s, prefix) ==
    /\ Len(prefix) <= Len(s)
    /\ SubSeq(s, 1, Len(prefix)) = prefix

\* pattern.search(metric) for a literal pattern
Contains(s, sub) ==
    \E i \in 0..(Len(s) - Len(sub)) : SubSeq(s, i + 1, i + Len(sub)) = sub

\* f"{county_snake_case}_{col_snake_case}.csv"
FileName(county_snake, metric) == county_snake \o <<"_">> \o metric \o CSV_SUFFIX

\* out_path = os.path.join(county_folder, f"{county_snake_case}_{col_snake_case}.csv")
OutPath(county, col) ==
    [dirs |-> PathJoin(<<>>, to_snake_case(county)),
     name |-> FileName(to_snake_case(county), to_snake_case(col))]

\* group_county_patterns, in dictionary order
Groups == <<"housing", "labor", "economy">>
GroupWords(g) ==
    CASE g = "housing" -> {<<"h", "o", "u", "s", "e">>, <<"h", "o", "u", "s", "i", "n", "g">>}
      [] g = "labor"   -> {<<"e", "m", "p", "l", "o", "y">>, <<"l", "a", "b", "o", "r">>, <<"l", "a", "b", "o", "u", "r">>}
      [] g = "economy" -> {<<"p", "o", "v", "e", "r", "t", "y">>, <<"g", "d", "p">>, <<"p", "o", "p", "u", "l", "a", "t", "i", "o", "n">>}

\* pattern.search(metric) with re.IGNORECASE
PatternSearch(g, metric) == \E w \in GroupWords(g) : Contains(Lower(metric), w)

\* the first group whose pattern matches; "" when no pattern does
GroupOf(metric) ==
    LET hits == {k \in 1..Len(Groups) : PatternSearch(Groups[k], metric)}
    IN  IF hits = {} THEN ""
        ELSE Groups[CHOOSE k \in hits : \A j \in hits : k <= j]

county_list_snake == {to_snake_case(c) : c \in county_list}

\* prefix = folder_lower + "_"
PrefixNoUnderscore(folder_lower) == folder_lower
Prefix(folder_lower) == folder_lower \o <<"_">>

\* if folder_lower in county_list_snake ... if name_only.startswith(prefix)
HasMetric(file) ==
    LET folder_lower == Lower(ParentName(file))
    IN  /\ folder_lower \in county_list_snake
        /\ StartsWith(Stem(file.name), Prefix(folder_lower))

\* metric = name_only[len(prefix):]
MetricOfFile(file) ==
    LET name_only == Stem(file.name)
        prefix    == Prefix(Lower(ParentName(file)))
    IN  SubSeq(name_only, Len(prefix) + 1, Len(name_only))

NoCall == [county |-> <<>>, group |-> "", outcome |-> "not called"]

PathIdle ==
    /\ folders = {}
    /\ disk = {}
    /\ written = {}
    /\ dash_pc = "off"
    /\ scanned = {}
    /\ found_in = {}
    /\ county_metric_set = {}
    /\ county_metrics_df = {}
    /\ last_call = NoCall
    /\ lookups = {}

PathInit == PathIdle

NoRecentCall ==
    /\ last_call' = NoCall
    /\ lookups' = {}

\* fred_api.py, a row of the sheet: os.makedirs(county_folder, exist_ok=True)
FredMakeFolder ==
    /\ \E county \in county_list :
          folders' = folders \cup {PathJoin(<<>>, to_snake_case(county))}
    /\ folders' # folders
    /\ UNCHANGED <<disk, written, dash_pc, scanned, found_in, county_metric_set,
                   county_metrics_df, last_call, lookups>>
    /\ UNCHANGED <<countyVars, safeVars, snakeVars, blsVars, mergeVars, periodVars, mainVars, socVars, ipumsVars>>

\* fred_api.py, a cell of that row whose series was fetched: df.to_csv(out_path)
FredWrite ==
    /\ \E county \in county_list, col \in Columns :
          LET out_path == OutPath(county, col)
          IN  /\ PathJoin(<<>>, to_snake_case(county)) \in folders
              /\ out_path \in disk \/ Cardinality(disk) < MaxFiles
              /\ disk' = disk \cup {out_path}
              /\ written' = written \cup {[county |-> county, col |-> col, path |-> out_path]}
    /\ written' # written
    /\ UNCHANGED <<folders, dash_pc, scanned, found_in, county_metric_set,
                   county_metrics_df, last_call, lookups>>
    /\ UNCHANGED <<countyVars, safeVars, snakeVars, blsVars, mergeVars, periodVars, mainVars, socVars, ipumsVars>>

\* generate_plotly_dash.py is started: county_metric_set, county_metrics_df
DashStart ==
    /\ disk # scanned \/ dash_pc = "off"
    /\ dash_pc' = "serving"
    /\ scanned' = disk
    /\ found_in' = {[path |-> f, metric |-> MetricOfFile(f)] :
                        f \in {g \in disk : HasMetric(g)}}
    /\ county_metric_set' = {r.metric : r \in found_in'}
    /\ county_metrics_df' = {[group |-> GroupOf(m), metric |-> m] :
                                m \in {n \in county_metric_set' : GroupOf(n) # ""}}
    /\ NoRecentCall
    /\ UNCHANGED <<folders, disk, written>>
    /\ UNCHANGED <<countyVars, safeVars, snakeVars, blsVars, mergeVars, periodVars, mainVars, socVars, ipumsVars>>

\* get_group_data_for_county(county_name_pretty, group_name), from the callback
GetGroupData ==
    /\ dash_pc = "serving"
    /\ \E county_name_pretty \in county_list, k \in 1..Len(Groups) :
          LET group_name       == Groups[k]
              county_snake     == to_snake_case(county_name_pretty)
              county_folder    == PathJoin(<<>>, county_snake)
              metrics_in_group == {r.metric : r \in {q \in county_metrics_df : q.group = group_name}}
              csv_path(metric) == [dirs |-> county_folder, name |-> FileName(county_snake, metric)]
              frames           == {m \in metrics_in_group : csv_path(m) \in disk}
          IN  IF county_folder # <<>> /\ county_folder \notin folders
              THEN /\ last_call' = [county |-> county_name_pretty, group |-> group_name,
                                    outcome |-> "FileNotFoundError"]
                   /\ lookups' = {}
              ELSE /\ last_call' = [county |-> county_name_pretty, group |-> group_name,
                                    outcome |-> IF frames = {} THEN "ValueError" ELSE "frame"]
                   /\ lookups' = {[metric |-> m, path |-> csv_path(m), exists |-> csv_path(m) \in disk] :
                                     m \in metrics_in_group}
    /\ UNCHANGED <<folders, disk, written, dash_pc, scanned, found_in, county_metric_set,
                   county_metrics_df>>
    /\ UNCHANGED <<countyVars, safeVars, snakeVars, blsVars, mergeVars, periodVars, mainVars, socVars, ipumsVars>>

PathStep ==
    \/ FredMakeFolder
    \/ FredWrite
    \/ DashStart
    \/ GetGroupData

(***************************************************************************)
(* bls_api.py: series ids, file names and the batched download             *)
(***************************************************************************)
chunk_size == 25

\* the COUNTY column of the sheet and the county part of each LAUS area code
MdCounties ==
    << <<"A", "l", "l", "e", "g", "a", "n", "y">>, <<"A", "n", "n", "e", " ", "A", "r", "u", "n", "d", "e", "l">>, <<"B", "a", "l", "t", "i", "m", "o", "r", "e", " ", "C", "i", "t", "y">>, <<"B", "a", "l", "t", "i", "m", "o", "r", "e">>,
       <<"C", "a", "l", "v", "e", "r", "t">>, <<"C", "a", "r", "o", "l", "i", "n", "e">>, <<"C", "a", "r", "r", "o", "l", "l">>, <<"C", "e", "c", "i", "l">> >>
MdFips == << 1, 3, 510, 5, 9, 11, 13, 15 >>

DigitChar(d) == << "0", "1", "2", "3", "4", "5", "6", "7", "8", "9" >>[d + 1]
ThreeDigits(n) == << DigitChar(n \div 100), DigitChar((n \div 10) % 10), DigitChar(n % 10) >>

\* a county series id of the BLS: LAUCN, state 24, county, eight zeros, measure code
LausId(fips, code) == <<"L", "A", "U", "C", "N", "2", "4">> \o ThreeDigits(fips) \o <<"0", "0", "0", "0", "0", "0", "0", "0">> \o code

\* the text the sheet holds in the SERIES ID cell of Baltimore City
CheckCountyText == <<"C", "h", "e", "c", "k", " ", "C", "o", "u", "n", "t", "y", " ", "F", "R", "E", "D", " ", "s", "h", "e", "e", "t">>

\* what a sheet can look like: every row carries its employment id, but for
\* at most one row, which carries the id of another measure (not ending in
\* 05), the id of row 1, or the county name of row 1
SheetDefects == {"none", "other_measure", "same_id", "same_county"}

SheetRow(r, defect, at) ==
    [COUNTY |-> IF defect = "same_county" /\ r = at THEN MdCounties[1] ELSE MdCounties[r],
     SERIES_ID |-> IF defect = "other_measure" /\ r = at THEN LausId(MdFips[r], <<"0", "3">>)
                   ELSE IF defect = "same_id" /\ r = at THEN LausId(MdFips[1], <<"0", "5">>)
                   ELSE IF MdCounties[r] = <<"B", "a", "l", "t", "i", "m", "o", "r", "e", " ", "C", "i", "t", "y">> THEN CheckCountyText
                   ELSE LausId(MdFips[r], <<"0", "5">>)]

Sheet(n, defect, at) == [r \in 1..n |-> SheetRow(r, defect, at)]

\* county_series_id_df.loc[COUNTY == 'Baltimore City', 'SERIES ID'] = 'LAUCN245100000000005'
FixBaltimoreCity(df) ==
    [r \in DOMAIN df |->
        IF df[r].COUNTY = <<"B", "a", "l", "t", "i", "m", "o", "r", "e", " ", "C", "i", "t", "y">>
        THEN [df[r] EXCEPT !.SERIES_ID = <<"L", "A", "U", "C", "N", "2", "4", "5", "1", "0", "0", "0", "0", "0", "0", "0", "0", "0", "0", "5">>]
        ELSE df[r]]

EndsWith(s, t) == Len(s) >= Len(t) /\ SubSeq(s, Len(s) - Len(t) + 1, Len(s)) = t

\* .str.replace('05$', code, regex=True)
ReplaceAtEnd(id, code) ==
    IF EndsWith(id, <<"0", "5">>) THEN SubSeq(id, 1, Len(id) - 2) \o code ELSE id

\* value_vars of the melt, the metric each is mapped to by metric_map, and
\* the BLS measure code of its ids
ValueVars == << "SERIES ID", "Unemployment Count ID", "Unemployment Rate ID", "Labor Force ID" >>
MetricNames == << <<"E", "m", "p", "l", "o", "y", "m", "e", "n", "t">>, <<"U", "n", "e", "m", "p", "l", "o", "y", "m", "e", "n", "t", " ", "C", "o", "u", "n", "t">>, <<"U", "n", "e", "m", "p", "l", "o", "y", "m", "e", "n", "t", " ", "R", "a", "t", "e">>, <<"L", "a", "b", "o", "r", " ", "F", "o", "r", "c", "e">> >>
MetricCodes == << <<"0", "5">>, <<"0", "4">>, <<"0", "3">>, <<"0", "6">> >>

\* the column ValueVars[v] of a sheet row
IdColumn(id, v) == IF v = 1 THEN id ELSE ReplaceAtEnd(id, MetricCodes[v])

\* melt: the rows of the first value column, then those of the second, ...
Melt(df) ==
    LET n == Len(df) IN
    [j \in 1..(Len(ValueVars) * n) |->
        LET v == ((j - 1) \div n) + 1
            r == ((j - 1) % n) + 1
        IN [COUNTY |-> df[r].COUNTY,
            Metric |-> MetricNames[v],
            Series_ID |-> IdColumn(df[r].SERIES_ID, v)]]

\* friendly_name = f"{clean_county}_{clean_metric}"
FriendlyName(row) == to_snake_case(row.COUNTY) \o <<"_">> \o to_snake_case(row.Metric)

Largest(S) == CHOOSE x \in S : \A y \in S : y <= x

\* the dict filled row by row: a later row with the same id replaces the entry
IdToFilename(melted) ==
    [sid \in {melted[j].Series_ID : j \in DOMAIN melted} |->
        FriendlyName(melted[Largest({j \in DOMAIN melted : melted[j].Series_ID = sid})])]

\* Series.unique(): the values in order of first appearance
RECURSIVE Unique(_)
Unique(s) ==
    IF s = <<>> THEN <<>>
    ELSE LET rest == Unique(SubSeq(s, 1, Len(s) - 1))
             x == s[Len(s)]
         IN IF \E k \in DOMAIN rest : rest[k] = x THEN rest ELSE Append(rest, x)

AllSeriesIds(melted) == Unique([j \in DOMAIN melted |-> melted[j].Series_ID])

Min(a, b) == IF a <= b THEN a ELSE b

\* a slice that runs one id into the next batch
CurrentChunkOverlap(ids, i) == SubSeq(ids, i + 1, Min(i + chunk_size + 1, Len(ids)))

\* all_series_ids[i : i + chunk_size]
CurrentChunk(ids, i) == SubSeq(ids, i + 1, Min(i + chunk_size, Len(ids)))

\* open(filepath, "w") for every series of the response: a file of that name
\* is replaced
RECURSIVE WriteSeries(_, _, _)
WriteSeries(dir, series, names) ==
    IF series = <<>> THEN dir
    ELSE LET sid == Head(series)
             name == names[sid] \o <<".", "c", "s", "v">>
         IN WriteSeries({f \in dir : f.name # name} \cup {[name |-> name, series_id |-> sid]},
                        Tail(series), names)

BlsIdle ==
    /\ county_series_id_df = <<>>
    /\ county_series_melted = <<>>
    /\ id_to_filename = <<>>
    /\ all_series_ids = <<>>
    /\ bls_i = 0
    /\ bls_pc = "off"
    /\ bls_requests = <<>>
    /\ bls_log = <<>>
    /\ bls_saved = <<>>
    /\ employment_count_dir = {}

\* the script up to the batch loop
BlsInit ==
    /\ \E n \in 1..MaxRows, defect \in SheetDefects, at \in 2..MaxRows :
          /\ at <= n \/ (defect = "none" /\ at = 2)
          /\ defect = "none" => at = 2
          /\ county_series_id_df = Sheet(n, defect, at)
    /\ county_series_melted = Melt(FixBaltimoreCity(county_series_id_df))
    /\ id_to_filename = IdToFilename(county_series_melted)
    /\ all_series_ids = AllSeriesIds(county_series_melted)
    /\ bls_i = 0
    /\ bls_pc = "loop"
    /\ bls_requests = <<>>
    /\ bls_log = <<>>
    /\ bls_saved = <<>>
    /\ employment_count_dir = {}

\* one pass of the loop body that is cut short by a continue: the request is
\* sent, the error is printed and i moves on
BatchSkipped(error) ==
    /\ bls_pc = "loop"
    /\ bls_i < Len(all_series_ids)
    /\ bls_requests' = Append(bls_requests, CurrentChunk(all_series_ids, bls_i))
    /\ bls_log' = bls_log \o << "request", error >>
    /\ bls_i' = bls_i + chunk_size
    /\ UNCHANGED <<county_series_id_df, county_series_melted, id_to_filename,
                   all_series_ids, bls_pc, bls_saved, employment_count_dir>>

\* the answer has status REQUEST_NOT_PROCESSED: continue
BlsBatchNotProcessed ==
    /\ BatchSkipped("[ERROR] Batch failed")
    /\ UNCHANGED <<countyVars, safeVars, snakeVars, pathVars, mergeVars, periodVars, mainVars, socVars, ipumsVars>>

\* requests.post or response.json() raises: continue
BlsBatchException ==
    /\ BatchSkipped("[ERROR] Request failed")
    /\ UNCHANGED <<countyVars, safeVars, snakeVars, pathVars, mergeVars, periodVars, mainVars, socVars, ipumsVars>>

\* the answer carries no Results: nothing is written, the script sleeps
BlsBatchNoResults ==
    /\ bls_pc = "loop"
    /\ bls_i < Len(all_series_ids)
    /\ bls_requests' = Append(bls_requests, CurrentChunk(all_series_ids, bls_i))
    /\ bls_log' = bls_log \o << "request", "sleep" >>
    /\ bls_i' = bls_i + chunk_size
    /\ UNCHANGED <<county_series_id_df, county_series_melted, id_to_filename,
                   all_series_ids, bls_pc, bls_saved, employment_count_dir>>
    /\ UNCHANGED <<countyVars, safeVars, snakeVars, pathVars, mergeVars, periodVars, mainVars, socVars, ipumsVars>>

\* the answer carries the series of the request: one file per series, then
\* time.sleep(SLEEP_TIME)
BlsBatchOk ==
    /\ bls_pc = "loop"
    /\ bls_i < Len(all_series_ids)
    /\ bls_requests' = Append(bls_requests, CurrentChunk(all_series_ids, bls_i))
    /\ employment_count_dir' =
          WriteSeries(employment_count_dir, CurrentChunk(all_series_ids, bls_i), id_to_filename)
    /\ bls_saved' = bls_saved \o CurrentChunk(all_series_ids, bls_i)
    /\ bls_log' = bls_log \o << "request", "sleep" >>
    /\ bls_i' = bls_i + chunk_size
    /\ UNCHANGED <<county_series_id_df, county_series_melted, id_to_filename,
                   all_series_ids, bls_pc>>
    /\ UNCHANGED <<countyVars, safeVars, snakeVars, pathVars, mergeVars, periodVars, mainVars, socVars, ipumsVars>>

\* range(0, len(all_series_ids), chunk_size) is exhausted
BlsLoopEnd ==
    /\ bls_pc = "loop"
    /\ bls_i >= Len(all_series_ids)
    /\ bls_pc' = "done"
    /\ UNCHANGED <<county_series_id_df, county_series_melted, id_to_filename,
                   all_series_ids, bls_i, bls_requests, bls_log, bls_saved,
                   employment_count_dir>>
    /\ UNCHANGED <<countyVars, safeVars, snakeVars, pathVars, mergeVars, periodVars, mainVars, socVars, ipumsVars>>

BlsStep ==
    \/ BlsBatchNotProcessed
    \/ BlsBatchException
    \/ BlsBatchNoResults
    \/ BlsBatchOk
    \/ BlsLoopEnd

(***************************************************************************)
(* bls_api.py: merge phase                                                 *)
(*                                                                         *)
(* A metric file is its name, the sheet county and the metric it was       *)
(* written for, and the dates of its rows; the value it holds for a date   *)
(* is written as the pair (file, date).  Dates are numbered in calendar    *)
(* order: make_date writes them as %Y-%m-%d, which sorts as the calendar   *)
(* does.                                                                   *)
(***************************************************************************)
\* str.replace(t, ""): every occurrence of t is removed, left to right
RECURSIVE RemoveAll(_, _)
RemoveAll(s, t) ==
    IF Len(s) < Len(t) THEN s
    ELSE IF SubSeq(s, 1, Len(t)) = t THEN RemoveAll(SubSeq(s, Len(t) + 1, Len(s)), t)
    ELSE <<s[1]>> \o RemoveAll(Tail(s), t)

\* the endings tested by the if / elif chain, in its order
MetricSuffixes ==
    << <<"_", "e", "m", "p", "l", "o", "y", "m", "e", "n", "t">>, <<"_", "u", "n", "e", "m", "p", "l", "o", "y", "m", "e", "n", "t", "_", "c", "o", "u", "n", "t">>, <<"_", "u", "n", "e", "m", "p", "l", "o", "y", "m", "e", "n", "t", "_", "r", "a", "t", "e">>, <<"_", "l", "a", "b", "o", "r", "_", "f", "o", "r", "c", "e">> >>

\* the value given to metric_col in each branch
MetricCols == << <<"E", "m", "p", "l", "o", "y", "m", "e", "n", "t">>, <<"U", "n", "e", "m", "p", "l", "o", "y", "m", "e", "n", "t", " ", "C", "o", "u", "n", "t">>, <<"U", "n", "e", "m", "p", "l", "o", "y", "m", "e", "n", "t", " ", "R", "a", "t", "e">>, <<"L", "a", "b", "o", "r", " ", "F", "o", "r", "c", "e">> >>

Smallest(S) == CHOOSE x \in S : \A y \in S : x <= y

\* the body of the first loop up to the else branch: the first ending of the
\* chain that the name has decides the metric, and the county is the name
\* with that text removed
ParseFilename(filename) ==
    LET name_no_ext == RemoveAll(filename, <<".", "c", "s", "v">>)
        hits == {v \in DOMAIN MetricSuffixes : EndsWith(name_no_ext, MetricSuffixes[v])}
    IN IF ~EndsWith(filename, <<".", "c", "s", "v">>) \/ hits = {}
       THEN [ok |-> FALSE, county_name |-> <<>>, metric_col |-> <<>>]
       ELSE [ok |-> TRUE,
             county_name |-> RemoveAll(name_no_ext, MetricSuffixes[Smallest(hits)]),
             metric_col |-> MetricCols[Smallest(hits)]]

\* sheet counties whose files the folder can hold
MergeCounties == { <<"K", "e", "n", "t">>, <<"K", "e", "n", "t", " ", "L", "a", "b", "o", "r", " ", "F", "o", "r", "c", "e">> }

\* the file the download phase writes for a county and a metric
MetricFileOf(c, v, dates) ==
    [name |-> FriendlyName([COUNTY |-> c, Metric |-> MetricNames[v]]) \o <<".", "c", "s", "v">>,
     county |-> c, metric |-> v, dates |-> dates]

\* a CSV in the folder that the download phase did not name
OtherFile(dates) ==
    [name |-> <<"k", "e", "n", "t", "_", "p", "o", "p", "u", "l", "a", "t", "i", "o", "n", ".", "c", "s", "v">>, county |-> <<>>, metric |-> 0, dates |-> dates]

\* what a folder can hold a file for: a county and a metric, or the other file
FolderSlots ==
    {[county |-> c, metric |-> v] : c \in MergeCounties, v \in DOMAIN MetricNames}
        \cup {[county |-> <<>>, metric |-> 0]}

FileOfSlot(slot, dates) ==
    IF slot.metric = 0 THEN OtherFile(dates) ELSE MetricFileOf(slot.county, slot.metric, dates)

\* the folders of up to n files, each with any of the given dates
Folders(n, dates) ==
    UNION {{{FileOfSlot(slot, d[slot]) : slot \in S} : d \in [S -> SUBSET dates]} :
              S \in {T \in SUBSET FolderSlots : Cardinality(T) \in 1..n}}

BlankCell == [file |-> <<>>, date |-> 0]

\* df[['date', 'value']].rename(columns={'value': metric_col})
FrameOf(f, metric_col) ==
    [cols |-> << [name |-> metric_col, file |-> f.name, dates |-> f.dates] >>,
     dates |-> f.dates]

\* pd.merge(left, right, on='date', how='outer'): a column name held by both
\* sides gets _x on the left and _y on the right
MergeOuter(left, right) ==
    LET clash(n) == /\ \E k \in DOMAIN left.cols : left.cols[k].name = n
                    /\ \E k \in DOMAIN right.cols : right.cols[k].name = n
    IN [cols |-> [k \in DOMAIN left.cols |->
                     IF clash(left.cols[k].name)
                     THEN [left.cols[k] EXCEPT !.name = @ \o <<"_", "x">>] ELSE left.cols[k]]
                 \o [k \in DOMAIN right.cols |->
                     IF clash(right.cols[k].name)
                     THEN [right.cols[k] EXCEPT !.name = @ \o <<"_", "y">>] ELSE right.cols[k]],
        dates |-> left.dates \cup right.dates]

\* merged_df = df_list[0]; for next_df in df_list[1:]: merged_df = pd.merge(...)
RECURSIVE MergeAll(_)
MergeAll(df_list) ==
    IF Len(df_list) = 1 THEN df_list[1]
    ELSE MergeOuter(MergeAll(SubSeq(df_list, 1, Len(df_list) - 1)), df_list[Len(df_list)])

\* sort_values('date')
RECURSIVE SortedDates(_)
SortedDates(S) ==
    IF S = {} THEN <<>> ELSE <<Smallest(S)>> \o SortedDates(S \ {Smallest(S)})

\* merged_df.to_csv(save_path, index=False): the sorted frame as a file
MergedCsv(county_name, df_list) ==
    LET merged_df == MergeAll(df_list)
        days == SortedDates(merged_df.dates)
    IN [name |-> county_name \o <<"_", "a", "l", "l", "_", "m", "e", "t", "r", "i", "c", "s", ".", "c", "s", "v">>,
        columns |-> [k \in DOMAIN merged_df.cols |-> merged_df.cols[k].name],
        rows |-> [r \in DOMAIN days |->
                    [date |-> days[r],
                     cells |-> [k \in DOMAIN merged_df.cols |->
                                  IF days[r] \in merged_df.cols[k].dates
                                  THEN [file |-> merged_df.cols[k].file, date |-> days[r]]
                                  ELSE BlankCell]]]]

MergeIdle ==
    /\ merge_files = {}
    /\ merge_pc = "off"
    /\ merge_read = {}
    /\ parsed = {}
    /\ county_dfs = <<>>
    /\ county_keys = <<>>
    /\ save_k = 0
    /\ merged_output_dir = {}

MergeInit ==
    /\ merge_files \in Folders(MaxMergeFiles, 1..MaxDates)
    /\ merge_pc = "collect"
    /\ merge_read = {}
    /\ parsed = {}
    /\ county_dfs = <<>>
    /\ county_keys = <<>>
    /\ save_k = 0
    /\ merged_output_dir = {}

\* one pass of the first loop for a file whose metric is identified; listdir
\* gives the files in any order
MergeCollect ==
    /\ merge_pc = "collect"
    /\ \E f \in merge_files :
          LET p == ParseFilename(f.name)
              df == FrameOf(f, p.metric_col)
              known == \E k \in DOMAIN county_keys : county_keys[k] = p.county_name
          IN /\ f.name \notin merge_read
             /\ p.ok
             /\ merge_read' = merge_read \cup {f.name}
             /\ parsed' = parsed \cup {[filename |-> f.name, county_name |-> p.county_name,
                                        metric_col |-> p.metric_col]}
             /\ county_keys' = IF known THEN county_keys ELSE Append(county_keys, p.county_name)
             /\ county_dfs' =
                   IF known
                   THEN [county_dfs EXCEPT ![p.county_name] = Append(@, df)]
                   ELSE [c \in DOMAIN county_dfs \cup {p.county_name} |->
                            IF c = p.county_name THEN <<df>> ELSE county_dfs[c]]
    /\ UNCHANGED <<merge_files, merge_pc, save_k, merged_output_dir>>
    /\ UNCHANGED <<countyVars, safeVars, snakeVars, pathVars, blsVars, periodVars, mainVars, socVars, ipumsVars>>

\* one pass of the first loop that ends in the else branch: [SKIP]
MergeSkip ==
    /\ merge_pc = "collect"
    /\ \E f \in merge_files :
          /\ f.name \notin merge_read
          /\ ~ParseFilename(f.name).ok
          /\ merge_read' = merge_read \cup {f.name}
    /\ UNCHANGED <<merge_files, merge_pc, parsed, county_dfs, county_keys, save_k,
                   merged_output_dir>>
    /\ UNCHANGED <<countyVars, safeVars, snakeVars, pathVars, blsVars, periodVars, mainVars, socVars, ipumsVars>>

\* listdir is exhausted; the merged folder is made
MergeCollected ==
    /\ merge_pc = "collect"
    /\ merge_read = {f.name : f \in merge_files}
    /\ merge_pc' = "save"
    /\ UNCHANGED <<merge_files, merge_read, parsed, county_dfs, county_keys, save_k,
                   merged_output_dir>>
    /\ UNCHANGED <<countyVars, safeVars, snakeVars, pathVars, blsVars, periodVars, mainVars, socVars, ipumsVars>>

\* one pass of the second loop (no list of county_dfs is empty: a key is
\* made only to append to it)
MergeSave ==
    /\ merge_pc = "save"
    /\ save_k < Len(county_keys)
    /\ LET county_name == county_keys[save_k + 1]
           csv == MergedCsv(county_name, county_dfs[county_name])
       IN merged_output_dir' = {f \in merged_output_dir : f.name # csv.name} \cup {csv}
    /\ save_k' = save_k + 1
    /\ UNCHANGED <<merge_files, merge_pc, merge_read, parsed, county_dfs, county_keys>>
    /\ UNCHANGED <<countyVars, safeVars, snakeVars, pathVars, blsVars, periodVars, mainVars, socVars, ipumsVars>>

MergeEnd ==
    /\ merge_pc = "save"
    /\ save_k = Len(county_keys)
    /\ merge_pc' = "done"
    /\ UNCHANGED <<merge_files, merge_read, parsed, county_dfs, county_keys, save_k,
                   merged_output_dir>>
    /\ UNCHANGED <<countyVars, safeVars, snakeVars, pathVars, blsVars, periodVars, mainVars, socVars, ipumsVars>>

MergeStep ==
    \/ MergeCollect
    \/ MergeSkip
    \/ MergeCollected
    \/ MergeSave
    \/ MergeEnd

(***************************************************************************)
(* maryland_fred_github_automation.py: period_to_month_end                 *)
(*                                                                         *)
(* A date is <<year, month, day>>; NaT is the date that to_datetime gives  *)
(* for an index entry it cannot read.  The value of an observation is      *)
(* written as the observation's own index entry.                           *)
(***************************************************************************)
NaT == <<0, 0, 0>>

IsLeap(y) == (y % 4 = 0 /\ y % 100 # 0) \/ y % 400 = 0

\* every February has 28 days
LastDayNoLeap(y, m) == <<31, 28, 31, 30, 31, 30, 31, 31, 30, 31, 30, 31>>[m]

\* the day of the month-end timestamp of month m of year y
LastDay(y, m) ==
    IF m = 2 /\ IsLeap(y) THEN 29
    ELSE <<31, 28, 31, 30, 31, 30, 31, 31, 30, 31, 30, 31>>[m]

\* .dt.to_period("M").dt.to_timestamp("M")
MonthEnd(date) == <<date[1], date[2], LastDay(date[1], date[2])>>

\* .dt.to_period("Y").dt.to_timestamp("M"): the month end of the year's first month
YearStartMonthEnd(date) == <<date[1], 1, LastDay(date[1], 1)>>

\* months counted from year 0, and back
MonthNumber(date) == date[1] * 12 + (date[2] - 1)
MonthEndOfNumber(n) == MonthEnd(<<n \div 12, (n % 12) + 1, 1>>)

\* dropna(subset=["Date"])
DropNaT(rows) == SelectSeq(rows, LAMBDA row : row.Date # NaT)

\* set_index("Date").resample("ME").ffill().reset_index() of rows in date
\* order: one row per month end from the first date to the last, with the
\* value of the last row dated at or before it
ResampleFfill(rows) ==
    IF rows = <<>> THEN <<>>
    ELSE LET first == MonthNumber(rows[1].Date)
             last == MonthNumber(rows[Len(rows)].Date)
         IN [k \in 1..(last - first + 1) |->
                LET n == first + k - 1
                    src == Largest({j \in DOMAIN rows : MonthNumber(rows[j].Date) <= n})
                IN [Date |-> MonthEndOfNumber(n), Value |-> rows[src].Value]]

period_to_month_end(series, freq) ==
    LET df == DropNaT([k \in DOMAIN series |->
                          [Date |-> series[k].date, Value |-> series[k].value]])
    IN IF freq = "M"
       THEN [k \in DOMAIN df |-> [Date |-> MonthEnd(df[k].Date), Value |-> df[k].Value]]
       ELSE ResampleFfill([k \in DOMAIN df |->
                              [Date |-> YearStartMonthEnd(df[k].Date), Value |-> df[k].Value]])

\* the series FRED returns: observations in ascending date order, no date
\* twice; a series of frequency "A" has one observation per year, dated
\* January 1
ObsYears == 2023..(2022 + MaxYears)
MonthlyDates == {<<y, m, 1>> : y \in ObsYears, m \in {1, 2, 12}}
AnnualDates == {<<y, 1, 1>> : y \in ObsYears}

DateBefore(a, b) ==
    \/ a[1] < b[1]
    \/ a[1] = b[1] /\ a[2] < b[2]
    \/ a[1] = b[1] /\ a[2] = b[2] /\ a[3] < b[3]

RECURSIVE InDateOrder(_)
InDateOrder(S) ==
    IF S = {} THEN <<>>
    ELSE LET d == CHOOSE x \in S : \A y \in S : y = x \/ DateBefore(x, y)
         IN <<[date |-> d, value |-> d]>> \o InDateOrder(S \ {d})

SeriesOver(dates) ==
    {InDateOrder(S) : S \in {T \in SUBSET dates : Cardinality(T) \in 1..MaxObs}}

\* an index entry that to_datetime cannot read, anywhere in the series
WithNaT(series) ==
    {SubSeq(series, 1, k) \o <<[date |-> NaT, value |-> <<0, 0, k>>]>>
        \o SubSeq(series, k + 1, Len(series)) : k \in 0..Len(series)}

PeriodIdle ==
    /\ p_series = <<>>
    /\ p_freq = ""
    /\ p_df = <<>>
    /\ p_pc = "off"

PeriodInit ==
    /\ p_freq \in {"M", "A"}
    /\ \E series \in SeriesOver(IF p_freq = "M" THEN MonthlyDates ELSE AnnualDates) :
          p_series \in {series} \cup {s \in WithNaT(series) : Len(s) <= MaxObs}
    /\ p_df = <<>>
    /\ p_pc = "called"

\* the call with freq == "M"
PeriodMonthly ==
    /\ p_pc = "called"
    /\ p_freq = "M"
    /\ p_df' = period_to_month_end(p_series, p_freq)
    /\ p_pc' = "returned"
    /\ UNCHANGED <<p_series, p_freq>>
    /\ UNCHANGED <<countyVars, safeVars, snakeVars, pathVars, blsVars, mergeVars, mainVars, socVars, ipumsVars>>

\* the call with another freq
PeriodOther ==
    /\ p_pc = "called"
    /\ p_freq # "M"
    /\ p_df' = period_to_month_end(p_series, p_freq)
    /\ p_pc' = "returned"
    /\ UNCHANGED <<p_series, p_freq>>
    /\ UNCHANGED <<countyVars, safeVars, snakeVars, pathVars, blsVars, mergeVars, mainVars, socVars, ipumsVars>>

PeriodStep ==
    \/ PeriodMonthly
    \/ PeriodOther

(***************************************************************************)
(* maryland_fred_github_automation.py: build_county_df and main            *)
(*                                                                         *)
(* A frame is its metric columns and its rows; a row is Date, County,      *)
(* County_Code and one cell per metric column.  The value of a FRED        *)
(* observation is written as (series id, observation date).                *)
(***************************************************************************)
\* the characters of the names, in code point order
Ascii == <<" ", "'", "-", ".", "0", "1", "2", "3", "4", "5", "6", "7", "8", "9", ":", "A", "B", "C", "D", "E", "F", "G", "H", "I", "J", "K", "L", "M", "N", "O", "P", "Q", "R", "S", "T", "U", "V", "W", "X", "Y", "Z", "_", "a", "b", "c", "d", "e", "f", "g", "h", "i", "j", "k", "l", "m", "n", "o", "p", "q", "r", "s", "t", "u", "v", "w", "x", "y", "z">>
CharRank(c) == CHOOSE i \in DOMAIN Ascii : Ascii[i] = c

\* a < b for python strings
RECURSIVE StrLess(_, _)
StrLess(a, b) ==
    IF b = <<>> THEN FALSE
    ELSE IF a = <<>> THEN TRUE
    ELSE IF a[1] = b[1] THEN StrLess(Tail(a), Tail(b))
    ELSE CharRank(a[1]) < CharRank(b[1])

\* three consecutive entries of COUNTIES with their first three series
COUNTIES ==
    << [code |-> "BALT", County |-> <<"B", "a", "l", "t", "i", "m", "o", "r", "e", " ", "C", "o", "u", "n", "t", "y">>,
        series |-> << [col_name |-> <<"H", "P", "I", "_", "A", "l", "l", "T", "r", "a", "n", "s", "a", "c", "t", "i", "o", "n", "s">>, series_id |-> "ATNHPIUS24005A", freq |-> "A"],
                      [col_name |-> <<"C", "i", "v", "i", "l", "i", "a", "n", "_", "L", "a", "b", "o", "r", "_", "F", "o", "r", "c", "e">>, series_id |-> "MDBALT0LFN", freq |-> "M"],
                      [col_name |-> <<"E", "m", "p", "l", "o", "y", "m", "e", "n", "t", "_", "C", "o", "u", "n", "t">>, series_id |-> "LAUCN240050000000005", freq |-> "M"] >>],
       [code |-> "BALT_CITY", County |-> <<"B", "a", "l", "t", "i", "m", "o", "r", "e", " ", "C", "i", "t", "y">>,
        series |-> << [col_name |-> <<"H", "P", "I", "_", "A", "l", "l", "T", "r", "a", "n", "s", "a", "c", "t", "i", "o", "n", "s">>, series_id |-> "ATNHPIUS24510A", freq |-> "A"],
                      [col_name |-> <<"C", "i", "v", "i", "l", "i", "a", "n", "_", "L", "a", "b", "o", "r", "_", "F", "o", "r", "c", "e">>, series_id |-> "MDBALT5LFN", freq |-> "M"],
                      [col_name |-> <<"E", "m", "p", "l", "o", "y", "m", "e", "n", "t", "_", "C", "o", "u", "n", "t">>, series_id |-> "SMS24925810000000001", freq |-> "M"] >>],
       [code |-> "CAL", County |-> <<"C", "a", "l", "v", "e", "r", "t">>,
        series |-> << [col_name |-> <<"H", "P", "I", "_", "A", "l", "l", "T", "r", "a", "n", "s", "a", "c", "t", "i", "o", "n", "s">>, series_id |-> "ATNHPIUS24009A", freq |-> "A"],
                      [col_name |-> <<"C", "i", "v", "i", "l", "i", "a", "n", "_", "L", "a", "b", "o", "r", "_", "F", "o", "r", "c", "e">>, series_id |-> "MDCALV9LFN", freq |-> "M"],
                      [col_name |-> <<"E", "m", "p", "l", "o", "y", "m", "e", "n", "t", "_", "C", "o", "u", "n", "t">>, series_id |-> "LAUCN240090000000005", freq |-> "M"] >>] >>

\* the part of COUNTIES that a run goes through
CountyAt(k) == COUNTIES[k]
SeriesAt(k) == SubSeq(COUNTIES[k].series, 1, MaxCols)

\* what fred.get_series returns when it returns data: one year of an annual
\* series, two months of a monthly one
FredSeries(series_id, freq) ==
    LET dates == IF freq = "A" THEN << <<2024, 1, 1>> >>
                 ELSE << <<2024, 1, 1>>, <<2024, 2, 1>> >>
    IN [k \in DOMAIN dates |->
           [date |-> dates[k], value |-> [series |-> series_id, obs |-> dates[k]]]]

BlankValue == [series |-> "", obs |-> NaT]

\* period_to_month_end(series, freq).rename(columns={"Value": col_name})
LoadedFrame(s) ==
    [col_name |-> s.col_name, rows |-> period_to_month_end(FredSeries(s.series_id, s.freq), s.freq)]

RECURSIVE SortedByDate(_)
SortedByDate(S) ==
    IF S = {} THEN <<>>
    ELSE LET d == CHOOSE x \in S : \A y \in S : y = x \/ DateBefore(x, y)
         IN <<d>> \o SortedByDate(S \ {d})

\* sorted(...) of column names
RECURSIVE SortedNames(_)
SortedNames(S) ==
    IF S = {} THEN <<>>
    ELSE LET n == CHOOSE x \in S : \A y \in S : y = x \/ StrLess(x, y)
         IN <<n>> \o SortedNames(S \ {n})

FrameDates(f) == {f.rows[k].Date : k \in DOMAIN f.rows}
FrameValue(f, date) == f.rows[CHOOSE k \in DOMAIN f.rows : f.rows[k].Date = date].Value

\* pd.DataFrame()
EmptyFrame == [cols |-> <<>>, rows |-> <<>>]

\* the same with how="inner": only the dates that every frame has
MergedFrameInner(code, County, fs) ==
    LET days == SortedByDate({d \in UNION {FrameDates(fs[i]) : i \in DOMAIN fs} :
                                 \A i \in DOMAIN fs : d \in FrameDates(fs[i])})
        names == {fs[i].col_name : i \in DOMAIN fs}
    IN [cols |-> SortedNames(names),
        rows |-> [r \in DOMAIN days |->
                    [Date |-> days[r], County |-> County, County_Code |-> code,
                     cells |-> [n \in names |->
                                  LET f == fs[CHOOSE i \in DOMAIN fs : fs[i].col_name = n]
                                  IN FrameValue(f, days[r])]]]]

\* reduce(pd.merge(l, r, on="Date", how="outer")) over a non-empty list,
\* the two inserted columns, the ordered columns, sort_values("Date")
MergedFrame(code, County, fs) ==
    LET days == SortedByDate(UNION {FrameDates(fs[i]) : i \in DOMAIN fs})
        names == {fs[i].col_name : i \in DOMAIN fs}
    IN [cols |-> SortedNames(names),
        rows |-> [r \in DOMAIN days |->
                    [Date |-> days[r], County |-> County, County_Code |-> code,
                     cells |-> [n \in names |->
                                  LET f == fs[CHOOSE i \in DOMAIN fs : fs[i].col_name = n]
                                  IN IF days[r] \in FrameDates(f)
                                     THEN FrameValue(f, days[r]) ELSE BlankValue]]]]

\* what build_county_df returns once its loop has ended
BuildResult(code, County, fs) ==
    IF fs = <<>> THEN EmptyFrame ELSE MergedFrame(code, County, fs)

\* df.empty
IsEmptyDf(df) == df.rows = <<>>

\* meta['County'].replace(' ', '_') + ".csv"
ExportName(County) ==
    [k \in DOMAIN County |-> IF County[k] = " " THEN "_" ELSE County[k]] \o <<".", "c", "s", "v">>

\* pd.concat(all_dfs, ignore_index=True): the rows of the m_frames one after
\* the other, each with a cell for every column of any of the m_frames
RECURSIVE ConcatCols(_)
ConcatCols(dfs) ==
    IF dfs = <<>> THEN <<>>
    ELSE LET before == ConcatCols(SubSeq(dfs, 1, Len(dfs) - 1))
             seen == {before[k] : k \in DOMAIN before}
         IN before \o SelectSeq(dfs[Len(dfs)].cols, LAMBDA n : n \notin seen)

RECURSIVE ConcatRows(_, _)
ConcatRows(dfs, names) ==
    IF dfs = <<>> THEN <<>>
    ELSE LET df == Head(dfs)
         IN [r \in DOMAIN df.rows |->
                [df.rows[r] EXCEPT !.cells =
                    [n \in names |-> IF n \in DOMAIN df.rows[r].cells
                                      THEN df.rows[r].cells[n] ELSE BlankValue]]]
            \o ConcatRows(Tail(dfs), names)

\* row a goes before row b by Date alone
DateOnlyBefore(a, b) == DateBefore(a.Date, b.Date)

\* row a goes before row b in sort_values(["County", "Date"])
MasterBefore(a, b) ==
    \/ StrLess(a.County, b.County)
    \/ a.County = b.County /\ DateBefore(a.Date, b.Date)

RECURSIVE SortMaster(_)
SortMaster(rows) ==
    IF rows = <<>> THEN <<>>
    ELSE LET rest == SortMaster(SubSeq(rows, 1, Len(rows) - 1))
             x == rows[Len(rows)]
             at == Cardinality({k \in DOMAIN rest : ~MasterBefore(x, rest[k])})
         IN SubSeq(rest, 1, at) \o <<x>> \o SubSeq(rest, at + 1, Len(rest))

MasterDf(dfs) ==
    LET cols == ConcatCols(dfs)
    IN [cols |-> cols, rows |-> SortMaster(ConcatRows(dfs, {cols[k] : k \in DOMAIN cols}))]

MainIdle ==
    /\ m_pc = "off"
    /\ m_k = 0
    /\ m_j = 0
    /\ m_frames = <<>>
    /\ m_events = <<>>
    /\ m_outcomes = <<>>
    /\ m_returned = <<>>
    /\ county_exports = {}
    /\ all_dfs = <<>>
    /\ master_exports = {}

\* main has called build_county_df for the first entry of COUNTIES
MainInit ==
    /\ m_pc = "county"
    /\ m_k = 1
    /\ m_j = 1
    /\ m_frames = <<>>
    /\ m_events = <<>>
    /\ m_outcomes = << <<>> >>
    /\ m_returned = <<>>
    /\ county_exports = {}
    /\ all_dfs = <<>>
    /\ master_exports = {}

\* one pass of the loop of build_county_df: sleep, fetch, and what follows
\* the given outcome of the fetch
SeriesPass(outcome, fs) ==
    /\ m_pc = "county"
    /\ m_j <= Len(SeriesAt(m_k))
    /\ m_events' = m_events \o << [ev |-> "sleep", series_id |-> SeriesAt(m_k)[m_j].series_id],
                                  [ev |-> "get_series", series_id |-> SeriesAt(m_k)[m_j].series_id] >>
    /\ m_outcomes' = [m_outcomes EXCEPT ![m_k] = Append(@, outcome)]
    /\ m_frames' = fs
    /\ m_j' = m_j + 1
    /\ UNCHANGED <<m_pc, m_k, m_returned, county_exports, all_dfs, master_exports>>

\* the series comes back with data
BuildLoaded ==
    /\ m_pc = "county"
    /\ m_j <= Len(SeriesAt(m_k))
    /\ SeriesPass("loaded", Append(m_frames, LoadedFrame(SeriesAt(m_k)[m_j])))
    /\ UNCHANGED <<countyVars, safeVars, snakeVars, pathVars, blsVars, mergeVars, periodVars, socVars, ipumsVars>>

\* series is None or series.empty (either way the same branch): continue
BuildEmptySeries ==
    /\ \E series \in {"None", "empty series"} : SeriesPass("empty or invalid", m_frames)
    /\ UNCHANGED <<countyVars, safeVars, snakeVars, pathVars, blsVars, mergeVars, periodVars, socVars, ipumsVars>>

\* fred.get_series raises: the except branch
BuildFetchRaises ==
    /\ SeriesPass("raised", m_frames)
    /\ UNCHANGED <<countyVars, safeVars, snakeVars, pathVars, blsVars, mergeVars, periodVars, socVars, ipumsVars>>

\* main goes on to the next entry of COUNTIES, or leaves the loop
NextCounty ==
    /\ m_frames' = <<>>
    /\ m_j' = 1
    /\ IF m_k < MaxCounties
       THEN /\ m_k' = m_k + 1
            /\ m_outcomes' = Append(m_outcomes, <<>>)
            /\ m_pc' = "county"
       ELSE /\ m_pc' = "master"
            /\ UNCHANGED <<m_k, m_outcomes>>

\* build_county_df returns an empty frame: main skips the county
MainSkipCounty ==
    /\ m_pc = "county"
    /\ m_j > Len(SeriesAt(m_k))
    /\ LET df == BuildResult(CountyAt(m_k).code, CountyAt(m_k).County, m_frames)
       IN /\ IsEmptyDf(df)
          /\ m_returned' = Append(m_returned, df)
    /\ NextCounty
    /\ UNCHANGED <<m_events, county_exports, all_dfs, master_exports>>
    /\ UNCHANGED <<countyVars, safeVars, snakeVars, pathVars, blsVars, mergeVars, periodVars, socVars, ipumsVars>>

\* build_county_df returns data: the county CSV is written, the frame kept
MainExportCounty ==
    /\ m_pc = "county"
    /\ m_j > Len(SeriesAt(m_k))
    /\ LET df == BuildResult(CountyAt(m_k).code, CountyAt(m_k).County, m_frames)
           file_name == ExportName(CountyAt(m_k).County)
       IN /\ ~IsEmptyDf(df)
          /\ m_returned' = Append(m_returned, df)
          /\ county_exports' = {f \in county_exports : f.name # file_name}
                                  \cup {[name |-> file_name, df |-> df]}
          /\ all_dfs' = Append(all_dfs, df)
    /\ NextCounty
    /\ UNCHANGED <<m_events, master_exports>>
    /\ UNCHANGED <<countyVars, safeVars, snakeVars, pathVars, blsVars, mergeVars, periodVars, socVars, ipumsVars>>

\* if all_dfs: the master dataset is written
MainWriteMaster ==
    /\ m_pc = "master"
    /\ all_dfs # <<>>
    /\ master_exports' = {[name |-> <<"m", "a", "r", "y", "l", "a", "n", "d", "_", "m", "a", "s", "t", "e", "r", ".", "c", "s", "v">>, df |-> MasterDf(all_dfs)]}
    /\ m_pc' = "done"
    /\ UNCHANGED <<m_k, m_j, m_frames, m_events, m_outcomes, m_returned, county_exports, all_dfs>>
    /\ UNCHANGED <<countyVars, safeVars, snakeVars, pathVars, blsVars, mergeVars, periodVars, socVars, ipumsVars>>

\* else: "No valid data retrieved"
MainNoData ==
    /\ m_pc = "master"
    /\ all_dfs = <<>>
    /\ m_pc' = "done"
    /\ UNCHANGED <<m_k, m_j, m_frames, m_events, m_outcomes, m_returned, county_exports, all_dfs,
                   master_exports>>
    /\ UNCHANGED <<countyVars, safeVars, snakeVars, pathVars, blsVars, mergeVars, periodVars, socVars, ipumsVars>>

MainStep ==
    \/ BuildLoaded
    \/ BuildEmptySeries
    \/ BuildFetchRaises
    \/ MainSkipCounty
    \/ MainExportCounty
    \/ MainWriteMaster
    \/ MainNoData

(***************************************************************************)
(* socrata_api.py                                                          *)
(*                                                                         *)
(* The fetched table has at most one row per (date, type); a row holds,    *)
(* for each county, a number, a text that is not a number, or nothing (the *)
(* JSON row has no such key).  A column exists if some row has its key.    *)
(***************************************************************************)
NoticeDates ==
    << <<"2", "0", "2", "1", "-", "0", "7", "-", "0", "1", "T", "0", "0", ":", "0", "0", ":", "0", "0", ".", "0", "0", "0">>, <<"2", "0", "2", "1", "-", "0", "8", "-", "0", "1", "T", "0", "0", ":", "0", "0", ":", "0", "0", ".", "0", "0", "0">>, <<"2", "0", "2", "1", "-", "0", "9", "-", "0", "1", "T", "0", "0", ":", "0", "0", ":", "0", "0", ".", "0", "0", "0">> >>
NoticeTypes == { <<"N", "O", "I">>, <<"N", "O", "F">> }
NoticeCounties == { <<"a", "l", "l", "e", "g", "a", "n", "y", "_", "c", "o", "u", "n", "t", "y">>, <<"b", "a", "l", "t", "i", "m", "o", "r", "e", "_", "c", "i", "t", "y">> }
SystemColumn == <<":", "i", "d">>

\* what a JSON row can hold for a county
RawValues == {[kind |-> "number", n |-> 7], [kind |-> "text", n |-> 0], [kind |-> "missing", n |-> 0]}

\* the tables the portal can answer with, over the first n dates
Tables(n) ==
    {[columns |-> sys, rows |-> rows] :
        sys \in {{}, {SystemColumn}},
        rows \in UNION {[K -> [NoticeCounties -> RawValues]] :
                           K \in (SUBSET ({NoticeDates[i] : i \in 1..n} \X NoticeTypes)) \ {{}}}}

\* df.columns apart from date and type
TableColumns(df) ==
    df.columns \cup {c \in NoticeCounties : \E key \in DOMAIN df.rows : df.rows[key][c].kind # "missing"}

\* c.startswith(":")
IsSystemColumn(c) == c # <<>> /\ c[1] = ":"

\* county_cols
CountyCols(df) == {c \in TableColumns(df) : ~IsSystemColumn(c)}

\* a cell of a CSV: a number, or nothing
NumberCell(n) == [blank |-> FALSE, n |-> n]
EmptyCell == [blank |-> TRUE, n |-> 0]

\* the value column after the melt: pd.to_numeric(..., errors='coerce').fillna(0)
MeltedValue(raw) == IF raw.kind = "number" THEN NumberCell(raw.n) ELSE NumberCell(0)

\* .str.split('T').str[0]
RECURSIVE BeforeT(_)
BeforeT(s) == IF s = <<>> \/ s[1] = "T" THEN <<>> ELSE <<s[1]>> \o BeforeT(Tail(s))

\* str.upper() of the characters of a column name
UpperChar(c) ==
    LET lower == <<"a", "b", "c", "d", "e", "f", "g", "h", "i", "j", "k", "l", "m", "n", "o", "p", "q", "r", "s", "t", "u", "v", "w", "x", "y", "z">>
        upper == <<"A", "B", "C", "D", "E", "F", "G", "H", "I", "J", "K", "L", "M", "N", "O", "P", "Q", "R", "S", "T", "U", "V", "W", "X", "Y", "Z">>
    IN IF \E i \in DOMAIN lower : lower[i] = c
       THEN upper[CHOOSE i \in DOMAIN lower : lower[i] = c]
       ELSE c
Upper(s) == [k \in DOMAIN s |-> UpperChar(s[k])]

\* filename_county + ".csv"
CountyFileName(county_clean_name) == Upper(RemoveAll(county_clean_name, <<"_", "c", "o", "u", "n", "t", "y">>)) \o <<".", "c", "s", "v">>

\* the pivot of one group, date column renamed, sorted and cut at 'T': a row
\* per date of the group, a column per type of the group, and nothing in a
\* cell whose (date, type) the group has no row for
PivotedCsv(df, county) ==
    LET keys == DOMAIN df.rows
        days == SortedNames({key[1] : key \in keys})
        types == SortedNames({key[2] : key \in keys})
    IN [name |-> CountyFileName(county),
        columns |-> << <<"O", "B", "S", "E", "R", "V", "A", "T", "I", "O", "N", " ", "D", "A", "T", "E">> >> \o types,
        rows |-> [r \in DOMAIN days |->
                    [date |-> BeforeT(days[r]),
                     cells |-> [t \in DOMAIN types |->
                                  IF <<days[r], types[t]>> \in keys
                                  THEN MeltedValue(df.rows[<<days[r], types[t]>>][county])
                                  ELSE EmptyCell]]]]

SocIdle ==
    /\ soc_pc = "off"
    /\ soc_df = [columns |-> {}, rows |-> <<>>]
    /\ soc_groups = <<>>
    /\ soc_k = 0
    /\ soc_files = {}

SocInit ==
    /\ soc_pc = "start"
    /\ soc_df = [columns |-> {}, rows |-> <<>>]
    /\ soc_groups = <<>>
    /\ soc_k = 0
    /\ soc_files = {}

\* response.status_code != 200: exit()
SocFetchFailed ==
    /\ soc_pc = "start"
    /\ soc_pc' = "exited"
    /\ UNCHANGED <<soc_df, soc_groups, soc_k, soc_files>>
    /\ UNCHANGED <<countyVars, safeVars, snakeVars, pathVars, blsVars, mergeVars, periodVars, mainVars, ipumsVars>>

\* the table is loaded, melted and grouped by county_name
SocFetched ==
    /\ soc_pc = "start"
    /\ soc_df' \in Tables(MaxNoticeDates)
    /\ soc_groups' = SortedNames(CountyCols(soc_df'))
    /\ soc_pc' = "export"
    /\ UNCHANGED <<soc_k, soc_files>>
    /\ UNCHANGED <<countyVars, safeVars, snakeVars, pathVars, blsVars, mergeVars, periodVars, mainVars, ipumsVars>>

\* one pass of the export loop
SocExport ==
    /\ soc_pc = "export"
    /\ soc_k < Len(soc_groups)
    /\ LET csv == PivotedCsv(soc_df, soc_groups[soc_k + 1])
       IN soc_files' = {f \in soc_files : f.name # csv.name} \cup {csv}
    /\ soc_k' = soc_k + 1
    /\ UNCHANGED <<soc_pc, soc_df, soc_groups>>
    /\ UNCHANGED <<countyVars, safeVars, snakeVars, pathVars, blsVars, mergeVars, periodVars, mainVars, ipumsVars>>

SocComplete ==
    /\ soc_pc = "export"
    /\ soc_k = Len(soc_groups)
    /\ soc_pc' = "done"
    /\ UNCHANGED <<soc_df, soc_groups, soc_k, soc_files>>
    /\ UNCHANGED <<countyVars, safeVars, snakeVars, pathVars, blsVars, mergeVars, periodVars, mainVars, ipumsVars>>

SocStep ==
    \/ SocFetchFailed
    \/ SocFetched
    \/ SocExport
    \/ SocComplete

(***************************************************************************)
(* ipums_api.py: wait and download                                         *)
(***************************************************************************)
POLL_WAIT == 30

\* extract_info.get("status"): "None" when the answer has no status
PendingStatuses == {"queued", "started", "None"}

PollEvent(status) == [ev |-> "poll", status |-> status, seconds |-> 0]
SleepEvent(seconds) == [ev |-> "sleep", status |-> "", seconds |-> seconds]
DownloadEvent == [ev |-> "download", status |-> "", seconds |-> 0]

PendingPolls == Cardinality({i \in DOMAIN ip_events : ip_events[i].status \in PendingStatuses})

\* the chain without its elif: only "completed" is told apart
AfterPollNoFailed(status) ==
    IF status = "completed" THEN "download" ELSE "sleep"

\* where the if / elif / else chain of the loop leads
AfterPoll(status) ==
    IF status = "completed" THEN "download"
    ELSE IF status = "failed" THEN "exited"
    ELSE "sleep"

IpumsIdle ==
    /\ ip_pc = "off"
    /\ ip_events = <<>>
    /\ ip_files = {}

\* the extract is submitted and has a number
IpumsInit ==
    /\ ip_pc = "poll"
    /\ ip_events = <<>>
    /\ ip_files = {}

\* one status request and the branch taken on its answer
Poll(status) ==
    /\ ip_pc = "poll"
    /\ ip_events' = Append(ip_events, PollEvent(status))
    /\ ip_pc' = AfterPoll(status)
    /\ UNCHANGED ip_files

\* status == "completed": break
IpumsPollCompleted ==
    /\ Poll("completed")
    /\ UNCHANGED <<countyVars, safeVars, snakeVars, pathVars, blsVars, mergeVars, periodVars, mainVars, socVars>>

\* status == "failed": exit()
IpumsPollFailed ==
    /\ Poll("failed")
    /\ UNCHANGED <<countyVars, safeVars, snakeVars, pathVars, blsVars, mergeVars, periodVars, mainVars, socVars>>

\* any other status: "Retrying in 30s..." and time.sleep(30) begins
IpumsPollPending ==
    /\ PendingPolls < MaxPolls
    /\ \E status \in PendingStatuses : Poll(status)
    /\ UNCHANGED <<countyVars, safeVars, snakeVars, pathVars, blsVars, mergeVars, periodVars, mainVars, socVars>>

\* time.sleep(30) returns: back to the top of the loop
IpumsSleepDone ==
    /\ ip_pc = "sleep"
    /\ ip_events' = Append(ip_events, SleepEvent(POLL_WAIT))
    /\ ip_pc' = "poll"
    /\ UNCHANGED ip_files
    /\ UNCHANGED <<countyVars, safeVars, snakeVars, pathVars, blsVars, mergeVars, periodVars, mainVars, socVars>>

\* the answer has downloadLinks.tableData: the zip is requested and written
IpumsDownload ==
    /\ ip_pc = "download"
    /\ ip_events' = Append(ip_events, DownloadEvent)
    /\ ip_files' = ip_files \cup {"nhgis.zip"}
    /\ ip_pc' = "downloaded"
    /\ UNCHANGED <<countyVars, safeVars, snakeVars, pathVars, blsVars, mergeVars, periodVars, mainVars, socVars>>

\* no download link in the answer: exit()
IpumsNoDownloadLink ==
    /\ ip_pc = "download"
    /\ ip_pc' = "exited"
    /\ UNCHANGED <<ip_events, ip_files>>
    /\ UNCHANGED <<countyVars, safeVars, snakeVars, pathVars, blsVars, mergeVars, periodVars, mainVars, socVars>>

IpumsStep ==
    \/ IpumsPollCompleted
    \/ IpumsPollFailed
    \/ IpumsPollPending
    \/ IpumsSleepDone
    \/ IpumsDownload
    \/ IpumsNoDownloadLink

(***************************************************************************)
(* Specifications                                                          *)
(***************************************************************************)
\* fred_api.py run over the sheet
CountyStart == CountyInit /\ SafeIdle /\ SnakeIdle /\ PathIdle /\ BlsIdle /\ MergeIdle /\ PeriodIdle /\ MainIdle /\ SocIdle /\ IpumsIdle
CountySpec == CountyStart /\ [][CountyStep]_vars

\* the script keeps running: every call and every sleep returns
CountyFairSpec == CountySpec /\ WF_vars(CountyStep)

\* one call of safe_get_series_info or safe_get_series
SafeStart == SafeInit /\ CountyIdle /\ SnakeIdle /\ PathIdle /\ BlsIdle /\ MergeIdle /\ PeriodIdle /\ MainIdle /\ SocIdle /\ IpumsIdle
SafeSpec == SafeStart /\ [][SafeStep]_vars

\* to_snake_case on every string of the bounded alphabet
SnakeStart == SnakeInit /\ CountyIdle /\ SafeIdle /\ PathIdle /\ BlsIdle /\ MergeIdle /\ PeriodIdle /\ MainIdle /\ SocIdle /\ IpumsIdle
SnakeSpec == SnakeStart /\ [][SnakeStep]_vars

\* fred_api.py writing files, generate_plotly_dash.py reading them
PathStart == PathInit /\ CountyIdle /\ SafeIdle /\ SnakeIdle /\ BlsIdle /\ MergeIdle /\ PeriodIdle /\ MainIdle /\ SocIdle /\ IpumsIdle
PathSpec == PathStart /\ [][PathStep]_vars

\* bls_api.py from the sheet to the end of the batch loop
BlsStart == BlsInit /\ CountyIdle /\ SafeIdle /\ SnakeIdle /\ PathIdle /\ MergeIdle /\ PeriodIdle /\ MainIdle /\ SocIdle /\ IpumsIdle
BlsSpec == BlsStart /\ [][BlsStep]_vars

\* the merge phase of bls_api.py over a folder of metric files
MergeStart == MergeInit /\ CountyIdle /\ SafeIdle /\ SnakeIdle /\ PathIdle /\ BlsIdle /\ PeriodIdle /\ MainIdle /\ SocIdle /\ IpumsIdle
MergeSpec == MergeStart /\ [][MergeStep]_vars

\* one call of period_to_month_end
PeriodStart == PeriodInit /\ CountyIdle /\ SafeIdle /\ SnakeIdle /\ PathIdle /\ BlsIdle /\ MergeIdle /\ MainIdle /\ SocIdle /\ IpumsIdle
PeriodSpec == PeriodStart /\ [][PeriodStep]_vars

\* main of maryland_fred_github_automation.py over the entries of COUNTIES
MainStart == MainInit /\ CountyIdle /\ SafeIdle /\ SnakeIdle /\ PathIdle /\ BlsIdle /\ MergeIdle /\ PeriodIdle /\ SocIdle /\ IpumsIdle
MainSpec == MainStart /\ [][MainStep]_vars

\* one run of socrata_api.py
SocStart == SocInit /\ CountyIdle /\ SafeIdle /\ SnakeIdle /\ PathIdle /\ BlsIdle /\ MergeIdle /\ PeriodIdle /\ MainIdle /\ IpumsIdle
SocSpec == SocStart /\ [][SocStep]_vars

\* ipums_api.py from the submitted extract on
IpumsStart == IpumsInit /\ CountyIdle /\ SafeIdle /\ SnakeIdle /\ PathIdle /\ BlsIdle /\ MergeIdle /\ PeriodIdle /\ MainIdle /\ SocIdle
IpumsSpec == IpumsStart /\ [][IpumsStep]_vars

(***************************************************************************)
(* Properties of the county loop of fred_api.py                            *)
(***************************************************************************)
Cells == 1..Len(sheet)

\* the loop is past cell i
Processed(i) == idx > i \/ pc = "done"

DataFetchFailed(i) == fetch_result[i] \in {"rate_limited", "http_other", "exception"}

\* C1: when the data fetch of a series does not succeed (429 on all 8
\* attempts, another HTTPError, any other exception), no CSV is written for
\* it and the loop goes on to the next series; no file ever holds the data
\* fetched for another series.
C1_FailedFetchWritesNothing ==
    /\ pc # "crashed"
    /\ \A i \in Cells :
          /\ files[i] \in {NoFile, SeriesOf(i)}
          /\ (Processed(i) /\ DataFetchFailed(i)) => files[i] = NoFile

\* C2: a series is fetched at most 8 times, the wait after the k-th
\* rate-limited attempt is 10 * 2^(k-1) seconds, and the retry loop is
\* always left.
C2_Bounded ==
    /\ attempts <= max_retries
    /\ retries <= max_retries
    /\ Len(waits) = IF pc = "sleep" THEN retries - 1 ELSE retries
    /\ \A k \in 1..Len(waits) : waits[k] = 10 * 2^(k - 1)
    /\ pc = "sleep" => wait_seconds = 10 * 2^(retries - 1)

C2_RetryLoopBoundedAndTerminates ==
    /\ []C2_Bounded
    /\ (pc \in {"fetch", "sleep"}) ~> (pc = "check")

\* all 8 attempts were rate limited: waits of 10, 20, ..., 1280 seconds
C2_Witness ==
    /\ pc = "check"
    /\ attempts = 8
    /\ Len(waits) = 8
    /\ waits[1] = 10
    /\ waits[8] = 1280

\* C3: every announced rate-limit wait is followed by another fetch attempt
\* for the same series before the script moves on.
C3_WaitThenRetry == [][pc = "sleep" => (pc' = "fetch" /\ idx' = idx)]_vars

\* C7: when fred.get_series_info fails for a series, the metadata printed for
\* it is None (never that of an earlier series), and its data fetch is still
\* attempted.
C7_FailedInfoReportsNone ==
    \A i \in Cells :
        info_failed[i] =>
            /\ reported[i] = None
            /\ Processed(i) => fetch_result[i] # "pending"

(***************************************************************************)
(* Properties of safe_get_series_info and safe_get_series                  *)
(***************************************************************************)
SafeCallNumbers == 1..Len(safe_calls)

AllRateLimited == \A k \in SafeCallNumbers : safe_calls[k] = "too_many_requests"

\* C4: the FRED client is called at most retries times, the result of the
\* first successful call is returned, and the 'Failed to fetch' ValueError is
\* raised exactly when all retries calls hit 'Too Many Requests'.
C4_SafeGet ==
    /\ Len(safe_calls) <= safe_retries
    /\ \A k \in SafeCallNumbers :
          safe_calls[k] = "ok" => /\ safe_pc = "returned"
                                  /\ safe_result = k
                                  /\ k = Len(safe_calls)
    /\ safe_pc = "returned" => /\ safe_result = Len(safe_calls)
                               /\ safe_calls[safe_result] = "ok"
    /\ safe_pc = "raised_failed" => (AllRateLimited /\ Len(safe_calls) = safe_retries)
    /\ (AllRateLimited /\ Len(safe_calls) = safe_retries)
          => safe_pc \in {"sleep", "loop", "raised_failed"}
    /\ (AllRateLimited /\ Len(safe_calls) = safe_retries /\ safe_pc = "loop")
          => ENABLED SafeExhausted

\* the default three attempts, all rate limited
C4_Witness ==
    /\ safe_pc = "raised_failed"
    /\ safe_retries = MAX_RETRIES
    /\ Len(safe_calls) = 3
    /\ AllRateLimited

\* C5: the waits of the safe_get functions double from one rate-limited
\* attempt to the next.
C5_WaitsDouble ==
    \A k \in 2..Len(safe_waits) : safe_waits[k] = 2 * safe_waits[k - 1]

\* C6: a ValueError without 'Too Many Requests' is re-raised on the attempt
\* where it occurs, with no wait and no further call of the FRED client.
C6_OtherValueErrorRaised ==
    \A k \in SafeCallNumbers :
        safe_calls[k] = "value_error" =>
            /\ k = Len(safe_calls)
            /\ safe_pc = "raised_value_error"
            /\ attempt = k - 1
            /\ Len(safe_waits) = k - 1

\* raised on the second attempt, after one rate-limited attempt
C6_Witness ==
    /\ safe_pc = "raised_value_error"
    /\ safe_calls = <<"too_many_requests", "value_error">>
    /\ safe_waits = <<5>>

(***************************************************************************)
(* Properties of to_snake_case                                             *)
(***************************************************************************)
IsSnake(s) ==
    /\ \A i \in 1..Len(s) : s[i] \in LowerLetters \cup Digits \cup {"_"}
    /\ \A i \in 1..(Len(s) - 1) : ~(s[i] = "_" /\ s[i + 1] = "_")
    /\ s # <<>> => (s[1] # "_" /\ s[Len(s)] # "_")

\* C8: the result of to_snake_case contains only a-z, 0-9 and '_', has no
\* two consecutive underscores, and neither starts nor ends with one.
C8_SnakeShape == snake_pc \in {"once", "twice"} => IsSnake(s_once)

\* separators at both ends and a run of them inside
C8_Witness ==
    /\ snake_pc = "once"
    /\ s_in = <<" ", "A", "-", "/">>
    /\ s_once = <<"a">>

\* C9: to_snake_case(to_snake_case(s)) = to_snake_case(s).
C9_Idempotent == snake_pc = "twice" => s_twice = s_once

C9_Witness ==
    /\ snake_pc = "twice"
    /\ s_in = <<"A", " ", "(", "1">>
    /\ s_once = <<"a", "_", "1">>
    /\ s_twice = s_once

(***************************************************************************)
(* Properties of the naming convention                                     *)
(***************************************************************************)
\* the path county_data/snake(c)/snake(c)_snake(m).csv
ExpectedPath(c, m) ==
    [dirs |-> <<to_snake_case(c)>>,
     name |-> to_snake_case(c) \o <<"_">> \o to_snake_case(m) \o <<".", "c", "s", "v">>]

\* C10: for a county c and a column m with non-empty snake-case forms,
\* fred_api writes to county_data/snake(c)/snake(c)_snake(m).csv, the
\* dashboard's discovery takes exactly snake(m) from that file, and
\* get_group_data_for_county(c, group) builds that same path for the metric.
C10_NamingRoundTrip ==
    \A w \in written :
        (to_snake_case(w.county) # <<>> /\ to_snake_case(w.col) # <<>>) =>
            /\ w.path = ExpectedPath(w.county, w.col)
            /\ w.path \in disk
            /\ w.path \in scanned =>
                  /\ \E r \in found_in : r.path = w.path
                  /\ \A r \in found_in : r.path = w.path => r.metric = to_snake_case(w.col)
                  /\ to_snake_case(w.col) \in county_metric_set
            /\ last_call.county = w.county =>
                  /\ \A l \in lookups : l.metric = to_snake_case(w.col) => l.path = w.path
                  /\ ( /\ last_call.outcome # "FileNotFoundError"
                       /\ [group |-> last_call.group, metric |-> to_snake_case(w.col)]
                              \in county_metrics_df )
                        => \E l \in lookups : l.metric = to_snake_case(w.col)

\* St. Mary's / Unemployment Rate (%) written, discovered, and looked up in
\* the labor group
C10_Witness ==
    \E w \in written :
        /\ w.county = <<"S", "t", ".", " ", "M", "a", "r", "y", "'", "s">>
        /\ to_snake_case(w.col) =
              <<"u", "n", "e", "m", "p", "l", "o", "y", "m", "e", "n", "t", "_", "r", "a", "t", "e">>
        /\ w.path \in scanned
        /\ last_call = [county |-> w.county, group |-> "labor", outcome |-> "frame"]
        /\ \E l \in lookups : l.path = w.path /\ l.exists

(***************************************************************************)
(* Properties of the batched download of bls_api.py                        *)
(***************************************************************************)
RECURSIVE Flatten(_)
Flatten(ss) == IF ss = <<>> THEN <<>> ELSE Head(ss) \o Flatten(Tail(ss))

\* the row of county_series_melted made from sheet row r and value column v
MeltedRow(r, v) == county_series_melted[(v - 1) * Len(county_series_id_df) + r]

\* the file name the download phase is to use for sheet row r and metric v
MetricFile(r, v) ==
    to_snake_case(county_series_id_df[r].COUNTY) \o <<"_">>
        \o to_snake_case(MetricNames[v]) \o <<".", "c", "s", "v">>

\* C11: after every request, whether its batch succeeded or failed, the
\* script sleeps SLEEP_TIME before it sends the next request -- between two
\* requests there is a sleep.
C11_SleepBeforeNextRequest ==
    \A j, k \in DOMAIN bls_log :
        j < k /\ bls_log[j] = "request" /\ bls_log[k] = "request"
            => \E m \in (j + 1)..(k - 1) : bls_log[m] = "sleep"

\* C12: the requests partition the unique series ids -- all_series_ids holds
\* every id of the melted table once; no request carries more than chunk_size
\* ids (and none is empty); the ids sent so far, in the order sent, are the
\* first ids of all_series_ids, and all of them once the loop has ended.
C12_BatchesPartitionIds ==
    LET sent == Flatten(bls_requests) IN
    /\ \A a, b \in DOMAIN all_series_ids : a # b => all_series_ids[a] # all_series_ids[b]
    /\ {all_series_ids[k] : k \in DOMAIN all_series_ids}
          = {county_series_melted[j].Series_ID : j \in DOMAIN county_series_melted}
    /\ \A k \in DOMAIN bls_requests : Len(bls_requests[k]) \in 1..chunk_size
    /\ Len(sent) <= Len(all_series_ids)
    /\ sent = SubSeq(all_series_ids, 1, Len(sent))
    /\ bls_pc = "done" => sent = all_series_ids

\* the loop has ended after a full request and a shorter one
C12_Witness ==
    /\ bls_pc = "done"
    /\ Len(bls_requests) = 2
    /\ Len(bls_requests[1]) = chunk_size
    /\ Len(bls_requests[2]) \in 1..(chunk_size - 1)

\* C13: for every sheet row and each of the four metrics the row has a series
\* id of its own that ends in the metric's BLS code; a file of the name
\* snake(county)_snake(metric).csv holds that series; and once that series
\* was saved, the file is there.
C13_FourFilesPerCounty ==
    \A r \in DOMAIN county_series_id_df :
        /\ Cardinality({MeltedRow(r, v).Series_ID : v \in DOMAIN MetricNames}) = Len(MetricNames)
        /\ \A v \in DOMAIN MetricNames :
              LET sid == MeltedRow(r, v).Series_ID IN
              /\ EndsWith(sid, MetricCodes[v])
              /\ \A f \in employment_count_dir : f.name = MetricFile(r, v) => f.series_id = sid
              /\ (\E k \in DOMAIN bls_saved : bls_saved[k] = sid)
                    => \E f \in employment_count_dir : f.name = MetricFile(r, v)

(***************************************************************************)
(* Properties of the merge phase of bls_api.py                             *)
(***************************************************************************)
\* the files of the folder that the download phase wrote for a sheet county
MetricFiles == {f \in merge_files : f.metric # 0}
FilesOfCounty(c) == {f \in MetricFiles : f.county = c}

\* C14: parsing the name snake(c)_snake(M).csv gives county_name = snake(c)
\* and metric_col = M, for every county c and each of the four metrics.
C14_ParsingInvertsNaming ==
    \A f \in MetricFiles :
        \A p \in parsed :
            p.filename = f.name
                => /\ p.county_name = to_snake_case(f.county)
                   /\ p.metric_col = MetricNames[f.metric]

\* C15: once the merge has ended there is one file <county>_all_metrics.csv
\* for every county with a metric file and no other; its rows are the dates
\* of the county's metric files, each once, in ascending order; and it has
\* one column per metric file of the county, holding that file's value for
\* the row's date, blank where the file has no such date.
C15_MergedFilePerCounty ==
    merge_pc = "done" =>
        LET counties == {f.county : f \in MetricFiles} IN
        /\ Cardinality(merged_output_dir) = Cardinality(counties)
        /\ \A c \in counties :
              \E m \in merged_output_dir :
                 /\ m.name = to_snake_case(c) \o <<"_", "a", "l", "l", "_", "m", "e", "t", "r", "i", "c", "s", ".", "c", "s", "v">>
                 /\ [r \in DOMAIN m.rows |-> m.rows[r].date]
                       = SortedDates(UNION {f.dates : f \in FilesOfCounty(c)})
                 /\ Len(m.columns) = Cardinality(FilesOfCounty(c))
                 /\ \A f \in FilesOfCounty(c) :
                       \E k \in DOMAIN m.columns :
                          /\ m.columns[k] = MetricNames[f.metric]
                          /\ \A r \in DOMAIN m.rows :
                                m.rows[r].cells[k] =
                                   IF m.rows[r].date \in f.dates
                                   THEN [file |-> f.name, date |-> m.rows[r].date]
                                   ELSE BlankCell

(***************************************************************************)
(* Properties of period_to_month_end                                       *)
(***************************************************************************)
\* the last day of a month, by the calendar rule
IsMonthEnd(date) ==
    LET y == date[1]
        m == date[2]
        leap == IF y % 400 = 0 THEN TRUE ELSE IF y % 100 = 0 THEN FALSE ELSE y % 4 = 0
    IN /\ m \in 1..12
       /\ date[3] = (IF m \in {4, 6, 9, 11} THEN 30
                     ELSE IF m = 2 THEN (IF leap THEN 29 ELSE 28)
                     ELSE 31)

\* the observations of the argument whose date is valid
ValidObs == SelectSeq(p_series, LAMBDA o : o.date # NaT)

\* C18: every returned date is a month end.  For freq "M" there is one row
\* per observation with a valid date, in the month of the observation and
\* with its value.  For another freq the rows are the month ends from
\* January of the first observation's year through January of the last
\* one's, each with the value of the latest observation of that year or an
\* earlier one.
C18_MonthEnds ==
    p_pc = "returned" =>
        /\ \A k \in DOMAIN p_df : IsMonthEnd(p_df[k].Date)
        /\ p_freq = "M" =>
              /\ Len(p_df) = Len(ValidObs)
              /\ \A k \in DOMAIN p_df :
                    /\ p_df[k].Date[1] = ValidObs[k].date[1]
                    /\ p_df[k].Date[2] = ValidObs[k].date[2]
                    /\ p_df[k].Value = ValidObs[k].value
        /\ p_freq # "M" =>
              LET first == ValidObs[1].date[1]
                  last == ValidObs[Len(ValidObs)].date[1]
              IN /\ Len(p_df) = 12 * (last - first) + 1
                 /\ \A k \in DOMAIN p_df :
                       LET y == first + ((k - 1) \div 12)
                           m == ((k - 1) % 12) + 1
                       IN /\ p_df[k].Date[1] = y
                          /\ p_df[k].Date[2] = m
                          /\ \E j \in DOMAIN ValidObs :
                                /\ ValidObs[j].date[1] <= y
                                /\ \A i \in DOMAIN ValidObs :
                                      ValidObs[i].date[1] <= y
                                         => ValidObs[i].date[1] <= ValidObs[j].date[1]
                                /\ p_df[k].Value = ValidObs[j].value

\* an annual series with a year missing came back filled through the
\* February of that year, a leap year
C18_Witness ==
    /\ p_pc = "returned"
    /\ p_freq # "M"
    /\ Len(p_df) < 12 * Len(p_series)
    /\ \A k \in DOMAIN p_series : p_series[k].date[1] # 2024
    /\ \E k \in DOMAIN p_df : p_df[k].Date = <<2024, 2, 29>> /\ p_df[k].Value = <<2023, 1, 1>>

(***************************************************************************)
(* Properties of build_county_df and main                                  *)
(***************************************************************************)
\* the counties main is through with, and those of them that gave data
Visited == DOMAIN m_returned
WithData == {k \in Visited : ~IsEmptyDf(m_returned[k])}

RECURSIVE RowCount(_)
RowCount(K) ==
    IF K = {} THEN 0
    ELSE LET k == CHOOSE x \in K : TRUE IN Len(m_returned[k].rows) + RowCount(K \ {k})

\* row m of the master dataset is row r of a county frame: the same date,
\* county and cells, and nothing in the columns the county does not have
SameRow(m, r) ==
    /\ m.Date = r.Date
    /\ m.County = r.County
    /\ m.County_Code = r.County_Code
    /\ \A n \in DOMAIN m.cells :
          m.cells[n] = (IF n \in DOMAIN r.cells THEN r.cells[n] ELSE BlankValue)

\* C16: the county CSVs are those of the counties whose frame came back
\* non-empty, one each, holding that frame; when main has ended, the master
\* file is there exactly if some county gave data, and its rows are the rows
\* of those frames, each once, ordered by County and then by Date.
C16_ExportsAndMaster ==
    /\ {f.name : f \in county_exports} = {ExportName(CountyAt(k).County) : k \in WithData}
    /\ Cardinality(county_exports) = Cardinality(WithData)
    /\ \A k \in WithData :
          \E f \in county_exports :
              f.name = ExportName(CountyAt(k).County) /\ f.df = m_returned[k]
    /\ m_pc # "done" => master_exports = {}
    /\ m_pc = "done" =>
          /\ Cardinality(Visited) = MaxCounties
          /\ WithData = {} => master_exports = {}
          /\ WithData # {} =>
                /\ Cardinality(master_exports) = 1
                /\ \A f \in master_exports :
                      /\ Len(f.df.rows) = RowCount(WithData)
                      /\ \A k \in WithData :
                            \A r \in DOMAIN m_returned[k].rows :
                                \E i \in DOMAIN f.df.rows :
                                    SameRow(f.df.rows[i], m_returned[k].rows[r])
                      /\ \A i, j \in DOMAIN f.df.rows :
                            i < j =>
                               \/ StrLess(f.df.rows[i].County, f.df.rows[j].County)
                               \/ /\ f.df.rows[i].County = f.df.rows[j].County
                                  /\ DateBefore(f.df.rows[i].Date, f.df.rows[j].Date)

\* main has ended with both counties exported, and the master dataset begins
\* with the county that comes second in COUNTIES
C16_Witness ==
    /\ m_pc = "done"
    /\ Cardinality(county_exports) = 2
    /\ \E f \in master_exports :
          /\ f.df.rows[1].County = CountyAt(2).County
          /\ f.df.rows[Len(f.df.rows)].County = CountyAt(1).County

\* C17: for every county build_county_df is through with -- each of its
\* series was fetched; every fetch comes right after a sleep; the returned
\* frame has the columns of the series that came back with data and of no
\* other; it holds every row of each of those, under its month-end date, and
\* no date of its own; and it is empty exactly if no series came back with
\* data.
C17_FailedSeriesLeftOut ==
    /\ \A i \in DOMAIN m_events :
          m_events[i].ev = "get_series"
              => /\ i > 1
                 /\ m_events[i - 1] = [ev |-> "sleep", series_id |-> m_events[i].series_id]
    /\ \A k \in Visited :
          LET series == SeriesAt(k)
              df == m_returned[k]
              loaded == {j \in DOMAIN series : m_outcomes[k][j] = "loaded"}
          IN /\ Len(m_outcomes[k]) = Len(series)
             /\ \A j \in DOMAIN series :
                   \E i \in DOMAIN m_events :
                       m_events[i] = [ev |-> "get_series", series_id |-> series[j].series_id]
             /\ {df.cols[i] : i \in DOMAIN df.cols} = {series[j].col_name : j \in loaded}
             /\ IsEmptyDf(df) <=> loaded = {}
             /\ \A j \in loaded :
                   LET f == LoadedFrame(series[j]) IN
                   \A r \in DOMAIN f.rows :
                       \E i \in DOMAIN df.rows :
                           /\ df.rows[i].Date = f.rows[r].Date
                           /\ df.rows[i].cells[series[j].col_name] = f.rows[r].Value
             /\ \A i \in DOMAIN df.rows :
                   \E j \in loaded : df.rows[i].Date \in FrameDates(LoadedFrame(series[j]))

\* a county whose first fetch raised and whose second series was loaded
C17_Witness ==
    \E k \in Visited :
        /\ m_outcomes[k][1] = "raised"
        /\ m_outcomes[k][2] = "loaded"
        /\ ~IsEmptyDf(m_returned[k])

(***************************************************************************)
(* Properties of socrata_api.py                                            *)
(***************************************************************************)
\* the observation dates of the fetched table, as written to the files
ObservationDates == {BeforeT(key[1]) : key \in DOMAIN soc_df.rows}
NoticeTypesFetched == {key[2] : key \in DOMAIN soc_df.rows}

\* the count the table has for a date, a type and a county: 0 when there is
\* none or it is not a number
CountOf(date, type, county) ==
    LET keys == {key \in DOMAIN soc_df.rows : BeforeT(key[1]) = date /\ key[2] = type}
    IN IF keys = {} THEN 0
       ELSE LET raw == soc_df.rows[CHOOSE key \in keys : TRUE][county]
            IN IF raw.kind = "number" THEN raw.n ELSE 0

\* C19: when the script has run through, the folder holds one file per
\* county column, named by the column in upper case without "_county";
\* each file has one row per observation date, in ascending order, and one
\* column per notice type, and every cell holds the table's count, 0 for a
\* missing or non-numeric one.
C19_CountyFiles ==
    soc_pc = "done" =>
        LET counties == {c \in NoticeCounties :
                            \E key \in DOMAIN soc_df.rows : soc_df.rows[key][c].kind # "missing"}
        IN /\ Cardinality(soc_files) = Cardinality(counties)
           /\ \A c \in counties :
                 \E f \in soc_files :
                    /\ f.name = Upper(RemoveAll(c, <<"_", "c", "o", "u", "n", "t", "y">>)) \o <<".", "c", "s", "v">>
                    /\ Len(f.rows) = Cardinality(ObservationDates)
                    /\ {f.rows[r].date : r \in DOMAIN f.rows} = ObservationDates
                    /\ \A r, q \in DOMAIN f.rows : r < q => StrLess(f.rows[r].date, f.rows[q].date)
                    /\ Len(f.columns) = 1 + Cardinality(NoticeTypesFetched)
                    /\ \A t \in 2..Len(f.columns) :
                          /\ f.columns[t] \in NoticeTypesFetched
                          /\ \A r \in DOMAIN f.rows :
                                f.rows[r].cells[t - 1]
                                   = NumberCell(CountOf(f.rows[r].date, f.columns[t], c))

(***************************************************************************)
(* Properties of the wait and download logic of ipums_api.py               *)
(***************************************************************************)
\* C20: a download is requested only right after a poll that returned
\* "completed"; once a poll returned "failed" the script has exited, with no
\* download requested and no file written; and a poll with any other status
\* is followed by a sleep of 30 seconds and nothing else, and the sleep by
\* another poll and nothing else.
C20_PollLoop ==
    /\ \A i \in DOMAIN ip_events :
          ip_events[i].ev = "download"
              => i > 1 /\ ip_events[i - 1] = PollEvent("completed")
    /\ (\E i \in DOMAIN ip_events : ip_events[i] = PollEvent("failed"))
          => /\ ip_pc = "exited"
             /\ ip_files = {}
             /\ \A i \in DOMAIN ip_events : ip_events[i].ev # "download"
    /\ ip_files # {} => \E i \in DOMAIN ip_events : ip_events[i].ev = "download"
    /\ \A i \in DOMAIN ip_events :
          (ip_events[i].ev = "poll" /\ ip_events[i].status \notin {"completed", "failed"})
              => /\ i = Len(ip_events) => ip_pc = "sleep"
                 /\ i < Len(ip_events) => ip_events[i + 1] = SleepEvent(30)
    /\ \A i \in DOMAIN ip_events :
          ip_events[i].ev = "sleep"
              => /\ i = Len(ip_events) => ip_pc = "poll"
                 /\ i < Len(ip_events) => ip_events[i + 1].ev = "poll"

\* the extract was downloaded after a poll without a status and a wait
C20_Witness ==
    /\ ip_pc = "downloaded"
    /\ ip_files # {}
    /\ \E i \in DOMAIN ip_events : ip_events[i] = PollEvent("None")
====
